---- MODULE Spec2Model ----
(***************************************************************************)
(* Ingestion orchestration engine of rag-factory.                          *)
(*                                                                         *)
(* The job store (table ingestion_jobs), the RQ task queue, the dedup      *)
(* table documents_tracking and the target vector table are the shared     *)
(* state; the job-control endpoints of api/main.py and the steps of the    *)
(* RQ task ingest_documents_from_source are the actions.                   *)
(*                                                                         *)
(* Scope of the model: the internal PostgreSQL database is reachable       *)
(* (get_db_connection returns a connection); the embedding backend and     *)
(* the target database may fail at any call.  delete_job is not modelled.  *)
(*                                                                         *)
(* Six specifications share the module:                                    *)
(*   Spec         the job engine (API endpoints and the worker task)       *)
(*   LimiterSpec  one RateLimiter object, its callers and the clock        *)
(*   CacheSpec    the content cache used by ChileBCNConnector while a      *)
(*                task is fetching                                         *)
(*   ChunkerSpec  one AdaptiveChunker.chunk_document call                  *)
(*   StandardSpec the calls that take the standard strategy, run fairly    *)
(*   SchedulerSpec  one schedule request and the next start of the API     *)
(* Each leaves the variables of the others at their initial values.        *)
(***************************************************************************)
EXTENDS Integers, Sequences, FiniteSets, TLC

\* ------------------------------------------------------------------ bounds
MaxJobs == 2        \* rows ever inserted into ingestion_jobs
MaxDocs == 2        \* documents returned by one fetch_documents call

\* ------------------------------------------------------------- vocabulary
Workers == {"w1"}
Projects == {1}
Sources == {1, 2}
NoTitle == "None"   \* a JSON null title / content (item.get(...) -> None)

\* Documents a connector can return: id, title, content.
\* The third one has a null title (generic_rest_api_connector.py:204 passes
\* a JSON null through item.get).
Corpus ==
  { [id |-> 1, title |-> "a", content |-> "x"],
    [id |-> 2, title |-> "b", content |-> "x"],
    [id |-> 3, title |-> NoTitle, content |-> "x"] }

DocIds == {d.id : d \in Corpus}

RECURSIVE SeqsUpTo(_)
SeqsUpTo(n) ==
  IF n = 0 THEN {<<>>}
  ELSE LET shorter == SeqsUpTo(n - 1)
       IN shorter \cup
          {Append(s, d) : s \in {t \in shorter : Len(t) = n - 1},
                          d \in Corpus}

\* Result lists of fetch_documents: at most MaxDocs documents, distinct ids.
Feeds ==
  {s \in SeqsUpTo(MaxDocs) :
     \A a, b \in 1..Len(s) : a # b => s[a].id # s[b].id}

\* ------------------------------------------------------------------ state
VARIABLES
  ingestion_jobs,      \* table ingestion_jobs: sequence of rows, id = index
  restart_of,          \* history: restart_of[j] = job that j restarts, or 0
  task_queue,          \* RQ queue 'rag-tasks': sequence of enqueued calls
  documents_tracking,  \* table documents_tracking: content hash -> status
  sink,                \* target vector table: document ids that have chunks
  schema,              \* schema version of the target table (1 or 2)
  data_sources,        \* table data_sources: source id -> source_type and
                       \* last_sync_at
  worker,              \* locals of ingest_documents_from_source per worker
  run,                 \* history of the current/last run of each worker
  outcome,             \* history: how each content was last counted
  limiter,             \* a RateLimiter object: its config and its fields
  now,                 \* the clock read by time.time(), in seconds
  requests,            \* history: the clock at every record_request call
  last_call,           \* history: the last limiter call and what it returned
  documents_content_cache,  \* table documents_content_cache: key -> entry
  cache_conn,          \* the ContentCacheService's connection: open / closed
  cache_call,          \* history: the last cache call and what it returned
  fetch,               \* locals of ChileBCNConnector.fetch_documents
  chunking,            \* one AdaptiveChunker.chunk_document call: its
                       \* arguments, its locals and what it returned
  scheduling,          \* one source's sync_frequency column, its entry in
                       \* the scheduler and the last schedule request
  control,             \* history: the last job control request (cancel,
                       \* pause, resume, start, restart) and its answer
  api                  \* locals of the API requests in flight, per handler

vars == <<ingestion_jobs, restart_of, task_queue, documents_tracking, sink,
          schema, data_sources, worker, run, outcome, limiter, now, requests, last_call,
          documents_content_cache, cache_conn, cache_call, fetch, chunking,
          scheduling, control, api>>

limiterVars == <<limiter, now, requests, last_call>>
cacheVars == <<documents_content_cache, cache_conn, cache_call, fetch>>
chunkerVars == <<chunking>>
schedulerVars == <<scheduling>>
controlVars == <<control>>
apiVars == <<api>>

jobVars == <<ingestion_jobs, restart_of, task_queue>>
storeVars == <<documents_tracking, sink, schema, outcome, data_sources>>
workerVars == <<worker, run>>

Terminal == {"completed", "failed", "cancelled"}
Unbound == <<"unbound">>     \* a local name that was never assigned

\* -------------------------------------------------------- pure functions

\* ingestion_tasks.py:231  content = title + ' ' + content
\* (raises TypeError when either operand is None)
CanConcat(doc) == doc.title # NoTitle /\ doc.content # NoTitle
Content(doc) == <<doc.title, " ", doc.content>>

\* embedding_service.py:117  SHA-256 of the text: equal texts have equal
\* digests, different texts different digests (collision-free digest).
compute_content_hash(text) == <<"sha256", text>>

Hashes == {compute_content_hash(Content(d)) : d \in {c \in Corpus : CanConcat(c)}}

\* variant: the query asks for the wrong status value
is_document_processed_processing(tracking, h) == tracking[h] = "processing"

\* ingestion_tasks.py:362  a row with this hash and status 'completed'
is_document_processed(tracking, h) == tracking[h] = "completed"

\* ingestion_tasks.py:392  INSERT ... 'processing' ON CONFLICT DO NOTHING
track_document(tracking, h) ==
  IF tracking[h] = "absent" THEN [tracking EXCEPT ![h] = "processing"]
  ELSE tracking

\* ingestion_tasks.py:67  UPDATE ... SET status WHERE document_hash = h
mark_document_processed(tracking, h, status) ==
  IF h \in DOMAIN tracking /\ tracking[h] # "absent"
  THEN [tracking EXCEPT ![h] = status]
  ELSE tracking

\* vector_db_writer.py:413  v2 looks for rows whose
\* metadata.original_document_id is the document id; v1 looks for a row
\* whose id is the document id, and rows are stored under "<id>_chunk_<n>".
document_exists(table, version, docId) ==
  IF version = 2 THEN docId \in table ELSE FALSE

\* ingestion_tasks.py:25  UPDATE ingestion_jobs SET <fields> WHERE id = j
update_job_progress(jobs, j, updates) ==
  IF j \in 1..Len(jobs)
  THEN [jobs EXCEPT ![j] =
          [f \in DOMAIN @ |-> IF f \in DOMAIN updates THEN updates[f] ELSE @[f]]]
  ELSE jobs

\* a row as INSERT INTO ingestion_jobs (project_id, source_id, job_type,
\* status) leaves it: schema.py:116 defaults for the other columns
NewJob(project, source, jobType, status) ==
  [project_id |-> project, source_id |-> source, job_type |-> jobType,
   status |-> status,
   total_documents |-> 0, processed_documents |-> 0,
   successful_documents |-> 0, failed_documents |-> 0,
   error_log |-> <<>>, started_at |-> FALSE, completed_at |-> FALSE]

IdleWorker ==
  [pc |-> "idle", job_id |-> 0, project_id |-> 0, source_id |-> 0,
   documents |-> <<>>, idx |-> 0, total_documents |-> 0,
   processed |-> 0, successful |-> 0, failed |-> 0,
   errors |-> <<>>, content_hash |-> Unbound, exc |-> "none",
   last_sync_at |-> "None"]

\* the sources of the project as they are created: never synced.  Source 1
\* is a web_scraper source, source 2 an rss_feed source.
NewSources ==
  [s \in Sources |-> [source_type |-> IF s = 1 THEN "web_scraper" ELSE "rss_feed",
                      last_sync_at |-> "None"]]

\* ConnectorMetadata.supports_incremental_sync as each connector's
\* get_metadata declares it (web_scraper_connector.py:51,
\* file_upload_connector.py:58; True in the other connectors)
supports_incremental_sync(source_type) ==
  source_type \notin {"web_scraper", "file_upload"}

\* allDone: every fetched document had a completed tracking row at fetch time
\* startFault: the health check or the target connection failed at start
\* embedded: of the chunks of the document this run stored last, "all" or
\*            only "some" got an embedding and were inserted
\* duplicated: the last store of this run added rows for a document whose
\*            chunks the table already held
NoRun ==
  [allDone |-> FALSE, startFault |-> FALSE, embedded |-> "none",
   duplicated |-> FALSE]

\* the variables of a component a specification does not run
LimiterUnused == limiter = <<>> /\ now = 0 /\ requests = <<>> /\ last_call = <<>>
ChunkerUnused == chunking = <<>>
SchedulerUnused == scheduling = <<>>
ControlUnused == control = <<>>
ApiUnused == api = <<>>
CacheUnused ==
  /\ documents_content_cache = <<>>
  /\ cache_conn = "open"
  /\ cache_call = <<>>
  /\ fetch = <<>>

\* ------------------------------------------------------------------- Init
Init ==
  /\ LimiterUnused
  /\ CacheUnused
  /\ ChunkerUnused
  /\ SchedulerUnused
  /\ ControlUnused
  /\ ApiUnused
  /\ ingestion_jobs = <<>>
  /\ restart_of = <<>>
  /\ task_queue = <<>>
  /\ documents_tracking = [h \in Hashes |-> "absent"]
  /\ sink = {}
  /\ schema \in {1, 2}
  /\ data_sources = NewSources
  /\ worker = [w \in Workers |-> IdleWorker]
  /\ run = [w \in Workers |-> NoRun]
  /\ outcome = [h \in Hashes |-> "none"]

\* ------------------------------------------------------- API (api/main.py)
JobIds == 1..Len(ingestion_jobs)

Call(j) ==
  [job_id |-> j, project_id |-> ingestion_jobs[j].project_id,
   source_id |-> ingestion_jobs[j].source_id]

\* POST /jobs: insert a queued row and enqueue the task
create_ingestion_job(p, s) ==
  /\ Len(ingestion_jobs) < MaxJobs
  /\ LET j == Len(ingestion_jobs) + 1 IN
     /\ ingestion_jobs' = Append(ingestion_jobs, NewJob(p, s, "full_sync", "queued"))
     /\ restart_of' = Append(restart_of, 0)
     /\ task_queue' = Append(task_queue, [job_id |-> j, project_id |-> p, source_id |-> s])
  /\ UNCHANGED <<storeVars, workerVars>>

\* scheduler: insert a pending row and commit; the import of
\* run_ingestion_job, a name workers.ingestion_tasks does not define, raises
\* before queue.enqueue and the outer handler only logs
trigger_sync_job(p, s) ==
  /\ Len(ingestion_jobs) < MaxJobs
  /\ ingestion_jobs' = Append(ingestion_jobs, NewJob(p, s, "scheduled", "pending"))
  /\ restart_of' = Append(restart_of, 0)
  /\ UNCHANGED <<task_queue, storeVars, workerVars>>

\* variant: completed jobs are also accepted
cancel_job_completed(j) ==
  /\ j \in JobIds
  /\ ingestion_jobs[j].status \in {"pending", "queued", "running", "completed"}
  /\ ingestion_jobs' = [ingestion_jobs EXCEPT ![j].status = "cancelled",
                                               ![j].completed_at = TRUE]
  /\ UNCHANGED <<restart_of, task_queue, storeVars, workerVars>>

\* POST /jobs/{id}/cancel
cancel_job(j) ==
  /\ j \in JobIds
  /\ ingestion_jobs[j].status \in {"pending", "queued", "running"}
  /\ ingestion_jobs' = [ingestion_jobs EXCEPT ![j].status = "cancelled",
                                               ![j].completed_at = TRUE]
  /\ UNCHANGED <<restart_of, task_queue, storeVars, workerVars>>

\* POST /jobs/{id}/pause
pause_job(j) ==
  /\ j \in JobIds
  /\ ingestion_jobs[j].status = "running"
  /\ ingestion_jobs' = [ingestion_jobs EXCEPT ![j].status = "paused"]
  /\ UNCHANGED <<restart_of, task_queue, storeVars, workerVars>>

\* POST /jobs/{id}/resume: only the status is written, nothing is enqueued
resume_job(j) ==
  /\ j \in JobIds
  /\ ingestion_jobs[j].status = "paused"
  /\ ingestion_jobs' = [ingestion_jobs EXCEPT ![j].status = "queued"]
  /\ UNCHANGED <<restart_of, task_queue, storeVars, workerVars>>

\* POST /jobs/{id}/start
start_job(j) ==
  /\ j \in JobIds
  /\ ingestion_jobs[j].status = "pending"
  /\ ingestion_jobs' = [ingestion_jobs EXCEPT ![j].status = "queued"]
  /\ task_queue' = Append(task_queue, Call(j))
  /\ UNCHANGED <<restart_of, storeVars, workerVars>>

\* variant: the restart also re-queues the original row in place
restart_job_in_place(j) ==
  /\ j \in JobIds
  /\ ingestion_jobs[j].status \in {"failed", "cancelled"}
  /\ Len(ingestion_jobs) < MaxJobs
  /\ LET old == ingestion_jobs[j]
         new_job_id == Len(ingestion_jobs) + 1 IN
     /\ ingestion_jobs' =
          Append([ingestion_jobs EXCEPT ![j].status = "queued"],
                 NewJob(old.project_id, old.source_id, old.job_type, "queued"))
     /\ restart_of' = Append(restart_of, j)
     /\ task_queue' = Append(task_queue,
                             [job_id |-> new_job_id, project_id |-> old.project_id,
                              source_id |-> old.source_id])
  /\ UNCHANGED <<storeVars, workerVars>>

\* POST /jobs/{id}/restart: a new queued row with the original's project,
\* source and job type, enqueued under the new id
restart_job(j) ==
  /\ j \in JobIds
  /\ ingestion_jobs[j].status \in {"failed", "cancelled"}
  /\ Len(ingestion_jobs) < MaxJobs
  /\ LET old == ingestion_jobs[j]
         new_job_id == Len(ingestion_jobs) + 1 IN
     /\ ingestion_jobs' =
          Append(ingestion_jobs,
                 NewJob(old.project_id, old.source_id, old.job_type, "queued"))
     /\ restart_of' = Append(restart_of, j)
     /\ task_queue' = Append(task_queue,
                             [job_id |-> new_job_id, project_id |-> old.project_id,
                              source_id |-> old.source_id])
  /\ UNCHANGED <<storeVars, workerVars>>

\* ------------------------- worker (workers/ingestion_tasks.py:96-359)

\* lines 115-143: the task starts: status 'running' is written whatever the
\* row's status is, the source's last_sync_at is read (as a date string, or
\* None for a source never synced) and the counters start at zero
StartTask(w) ==
  /\ worker[w].pc = "idle"
  /\ task_queue # <<>>
  /\ LET call == Head(task_queue) IN
     /\ task_queue' = Tail(task_queue)
     /\ ingestion_jobs' = update_job_progress(ingestion_jobs, call.job_id,
                             [status |-> "running", started_at |-> TRUE])
     /\ worker' = [worker EXCEPT ![w] =
                     [IdleWorker EXCEPT !.pc = "fetch", !.job_id = call.job_id,
                                        !.project_id = call.project_id,
                                        !.source_id = call.source_id,
                                        !.last_sync_at =
                                          data_sources[call.source_id].last_sync_at]]
     /\ run' = [run EXCEPT ![w] = NoRun]
  /\ UNCHANGED <<restart_of, storeVars>>

\* lines 145-190: build the connector and fetch with since = last_sync_at;
\* the list length is stored as total_documents.  A missing connector class,
\* a connector constructor or fetch_documents that raises leaves through the
\* outer handler.  No fetch_documents of connectors/ raises because of its
\* since argument: WebScraperConnector and FileUploadConnector never read
\* it, the others filter by it or ignore it.
fetch_documents(w, feeds) ==
  /\ worker[w].pc = "fetch"
  /\ \/ \E docs \in feeds :
          /\ worker' = [worker EXCEPT ![w].pc = "init", ![w].documents = docs,
                                      ![w].total_documents = Len(docs)]
          /\ ingestion_jobs' = update_job_progress(ingestion_jobs, worker[w].job_id,
                                  [total_documents |-> Len(docs)])
          /\ run' = [run EXCEPT ![w].allDone =
                       /\ docs # <<>>
                       /\ \A k \in 1..Len(docs) :
                            /\ CanConcat(docs[k])
                            /\ documents_tracking[compute_content_hash(Content(docs[k]))]
                                 = "completed"]
     \/ /\ worker' = [worker EXCEPT ![w].pc = "failing", ![w].exc = "fetch"]
        /\ UNCHANGED <<ingestion_jobs, run>>
  /\ UNCHANGED <<restart_of, task_queue, storeVars>>

FetchDocuments(w) == fetch_documents(w, Feeds)

\* variant: a failed health check is only logged
InitServices_unchecked(w) ==
  /\ worker[w].pc = "init"
  /\ \E healthy, connected \in BOOLEAN :
       IF ~connected
       THEN /\ worker' = [worker EXCEPT ![w].pc = "failing",
                                        ![w].exc = "sink_unavailable"]
            /\ run' = [run EXCEPT ![w].startFault = TRUE]
       ELSE /\ worker' = [worker EXCEPT ![w].pc = "loop"]
            /\ run' = [run EXCEPT ![w].startFault = ~healthy]
  /\ UNCHANGED <<jobVars, storeVars>>

\* lines 192-223: embedding health check, target database connection,
\* extension and table; each failure raises out to the outer handler
InitServices(w) ==
  /\ worker[w].pc = "init"
  /\ \E healthy, connected \in BOOLEAN :
       IF ~healthy \/ ~connected
       THEN /\ worker' = [worker EXCEPT ![w].pc = "failing",
                                        ![w].exc = "sink_unavailable"]
            /\ run' = [run EXCEPT ![w].startFault = TRUE]
       ELSE /\ worker' = [worker EXCEPT ![w].pc = "loop"]
            /\ UNCHANGED run
  /\ UNCHANGED <<jobVars, storeVars>>

\* lines 313-319: the progress write that ends an iteration
ProgressWrite(jobs, wr) ==
  update_job_progress(jobs, wr.job_id,
     [processed_documents |-> wr.processed,
      successful_documents |-> wr.successful,
      failed_documents |-> wr.failed])

\* lines 304-319: the per-document handler followed by the progress write.
\* wr is the worker's locals when the exception is raised; content_hash is
\* whatever the name is bound to at that moment.  Reading it unbound raises
\* inside the handler, which leaves the loop for the outer handler.
\* kind stands for the message text str(e): "type_error" (None + str) or
\* "sink_error" (no embedding produced, or insert_vectors raised).
\* h is the hash of the document at hand when it has one (history only).
DocumentFailed(w, wr, kind, h) ==
  LET counted == [wr EXCEPT !.failed = @ + 1,
                            !.errors = Append(@, kind)]
  IN IF wr.content_hash = Unbound
     THEN /\ worker' = [worker EXCEPT ![w] =
                          [counted EXCEPT !.pc = "failing", !.exc = "unbound_local"]]
          /\ UNCHANGED <<ingestion_jobs, documents_tracking, outcome>>
     ELSE /\ worker' = [worker EXCEPT ![w] = [counted EXCEPT !.pc = "loop"]]
          /\ documents_tracking' =
               mark_document_processed(documents_tracking, wr.content_hash, "failed")
          /\ outcome' = IF h = Unbound THEN outcome
                        ELSE [outcome EXCEPT ![h] = "failed"]
          /\ ingestion_jobs' = ProgressWrite(ingestion_jobs, counted)

\* lines 226-247: the head of an iteration, up to the decision to chunk
BeginDocument(w) ==
  /\ worker[w].pc = "loop"
  /\ worker[w].idx < Len(worker[w].documents)
  /\ LET doc == worker[w].documents[worker[w].idx + 1]
         wr0 == [worker[w] EXCEPT !.idx = @ + 1, !.processed = @ + 1]
         h == compute_content_hash(Content(doc))
         wr1 == [wr0 EXCEPT !.content_hash = h]
     IN IF ~CanConcat(doc)
        THEN /\ DocumentFailed(w, wr0, "type_error", Unbound)
             /\ UNCHANGED <<sink, run>>
        ELSE IF is_document_processed(documents_tracking, h)
        THEN \* 'continue': no counter but processed moves, nothing is stored
             /\ worker' = [worker EXCEPT ![w] = wr1]
             /\ UNCHANGED <<ingestion_jobs, documents_tracking, sink, outcome, run>>
        ELSE IF document_exists(sink, schema, doc.id)
        THEN \* already in the target table: success, 'continue'
             /\ worker' = [worker EXCEPT ![w] = [wr1 EXCEPT !.successful = @ + 1]]
             /\ documents_tracking' =
                  mark_document_processed(track_document(documents_tracking, h),
                                          h, "completed")
             /\ outcome' = [outcome EXCEPT ![h] = "ok"]
             /\ UNCHANGED <<ingestion_jobs, sink, run>>
        ELSE /\ worker' = [worker EXCEPT ![w] = [wr1 EXCEPT !.pc = "doc"]]
             /\ documents_tracking' = track_document(documents_tracking, h)
             /\ UNCHANGED <<ingestion_jobs, sink, outcome, run>>
  /\ UNCHANGED <<restart_of, task_queue, schema, data_sources>>

\* vector_db_writer.py:262  insert_vectors: v1 inserts with ON CONFLICT (id)
\* DO NOTHING, so chunks already stored under "<id>_chunk_<n>" add no row;
\* v2 (SERIAL id) inserts with no conflict clause, every call adds rows
rows_added(table, version, docId) ==
  IF version = 1 THEN docId \notin table ELSE TRUE

\* lines 249-319: chunk, embed every chunk, insert the embedded chunks, mark
\* the document.  result is what the backends did:
\*   "stored"         every chunk embedded, insert_vectors returned
\*   "stored_partial" some chunks got no embedding, the others were inserted
\*   "no_embedding"   no chunk got an embedding: ValueError, no insert call
\*   "insert_raised"  insert_vectors raised and rolled its transaction back
FinishDocument(w) ==
  /\ worker[w].pc = "doc"
  /\ LET wr == worker[w]
         doc == wr.documents[wr.idx]
         h == wr.content_hash
     IN \E result \in {"stored", "stored_partial", "no_embedding", "insert_raised"} :
          CASE result = "no_embedding" ->
                 /\ DocumentFailed(w, wr, "sink_error", h)
                 /\ UNCHANGED <<sink, run>>
            [] result = "insert_raised" ->
                 /\ DocumentFailed(w, wr, "sink_error", h)
                 /\ UNCHANGED <<sink, run>>
            [] OTHER ->
                 /\ sink' = sink \cup {doc.id}
                 /\ run' = [run EXCEPT ![w].embedded =
                              IF result = "stored" THEN "all" ELSE "some",
                            ![w].duplicated =
                              rows_added(sink, schema, doc.id) /\ doc.id \in sink]
                 /\ documents_tracking' =
                      mark_document_processed(documents_tracking, h, "completed")
                 /\ outcome' = [outcome EXCEPT ![h] = "ok"]
                 /\ LET done == [wr EXCEPT !.successful = @ + 1, !.pc = "loop"] IN
                      /\ worker' = [worker EXCEPT ![w] = done]
                      /\ ingestion_jobs' = ProgressWrite(ingestion_jobs, done)
  /\ UNCHANGED <<restart_of, task_queue, schema, data_sources>>

\* lines 321-349: the loop is over: 'completed' is written whatever the
\* row's status is, with the joined per-document messages as error_log
CompletionWrite(jobs, wr) ==
  update_job_progress(jobs, wr.job_id,
     [status |-> "completed", completed_at |-> TRUE, error_log |-> wr.errors])

\* lines 330-347: after the completion write the source's last_sync_at is
\* set to the time of the write
CompleteTask(w) ==
  /\ worker[w].pc = "loop"
  /\ worker[w].idx = Len(worker[w].documents)
  /\ ingestion_jobs' = CompletionWrite(ingestion_jobs, worker[w])
  /\ data_sources' = [data_sources EXCEPT
                        ![worker[w].source_id].last_sync_at = "date"]
  /\ worker' = [worker EXCEPT ![w] = IdleWorker]
  /\ run' = [run EXCEPT ![w] = NoRun]
  /\ UNCHANGED <<restart_of, task_queue, documents_tracking, sink, schema,
                 outcome>>

\* variant: the failure write also zeroes the progress counters
FailureWrite_reset(jobs, j, message) ==
  update_job_progress(jobs, j,
     [status |-> "failed", completed_at |-> TRUE, error_log |-> <<message>>,
      total_documents |-> 0, processed_documents |-> 0,
      successful_documents |-> 0, failed_documents |-> 0])

\* lines 351-359: the outer handler: 'failed', completed_at and the
\* exception text are written, then the exception is re-raised to RQ
FailureWrite(jobs, j, message) ==
  update_job_progress(jobs, j,
     [status |-> "failed", completed_at |-> TRUE, error_log |-> <<message>>])

FailTask(w) ==
  /\ worker[w].pc = "failing"
  /\ ingestion_jobs' = FailureWrite(ingestion_jobs, worker[w].job_id, worker[w].exc)
  /\ worker' = [worker EXCEPT ![w] = IdleWorker]
  /\ run' = [run EXCEPT ![w] = NoRun]
  /\ UNCHANGED <<restart_of, task_queue, storeVars>>

\* ------------------------------------------------------------------- Next
\* the job engine leaves the limiter and the cache alone
otherVars == <<limiterVars, cacheVars, chunkerVars, schedulerVars, controlVars, apiVars>>

Next ==
  \/ \E p \in Projects, s \in Sources : create_ingestion_job(p, s) /\ UNCHANGED otherVars
  \/ \E p \in Projects, s \in Sources : trigger_sync_job(p, s) /\ UNCHANGED otherVars
  \/ \E j \in JobIds : cancel_job(j) /\ UNCHANGED otherVars
  \/ \E j \in JobIds : pause_job(j) /\ UNCHANGED otherVars
  \/ \E j \in JobIds : resume_job(j) /\ UNCHANGED otherVars
  \/ \E j \in JobIds : start_job(j) /\ UNCHANGED otherVars
  \/ \E j \in JobIds : restart_job(j) /\ UNCHANGED otherVars
  \/ \E w \in Workers : StartTask(w) /\ UNCHANGED otherVars
  \/ \E w \in Workers : FetchDocuments(w) /\ UNCHANGED otherVars
  \/ \E w \in Workers : InitServices(w) /\ UNCHANGED otherVars
  \/ \E w \in Workers : BeginDocument(w) /\ UNCHANGED otherVars
  \/ \E w \in Workers : FinishDocument(w) /\ UNCHANGED otherVars
  \/ \E w \in Workers : CompleteTask(w) /\ UNCHANGED otherVars
  \/ \E w \in Workers : FailTask(w) /\ UNCHANGED otherVars

Spec == Init /\ [][Next]_vars

\* =============================== rate limiter (services/rate_limiter.py)
\* Times are whole seconds; the three windows keep their order (minute <
\* hour < day) at a reduced length.  min_delay, backoff_factor and
\* current_backoff_delay, floats in the code, take whole values.
MinuteWindow == 2    \* _check_time_window(60, ...)
HourWindow == 4      \* _check_time_window(3600, ...)
DayWindow == 6       \* _check_time_window(86400, ...)

MaxTime == 6         \* the clock stops here
MaxRequests == 2     \* record_request calls of one limiter
Max429 == 2          \* consecutive 429 responses
MaxCap == 2          \* largest configured cap of a window

\* a cap of 0 stands for None: 'if self.config.requests_per_minute:' treats
\* both alike
Configs ==
  [requests_per_minute : 0..MaxCap,
   requests_per_hour : {0, MaxCap},
   requests_per_day : {0, MaxCap},
   min_delay : {0, 2},
   backoff_factor : {2}]

\* the Retry-After value handed to record_429_response: <<>> is None
RetryAfters == {<<>>, <<0>>, <<2>>}

\* rate_limiter.py:90  RateLimiter.__init__
NewLimiter(config) ==
  [config |-> config, request_history |-> <<>>, last_request_time |-> <<>>,
   consecutive_429s |-> 0, current_backoff_delay |-> 0]

RECURSIVE Pow(_, _)
Pow(b, n) == IF n = 0 THEN 1 ELSE b * Pow(b, n - 1)

\* variant: the waits are added up
RECURSIVE sum_wait_times(_)
sum_wait_times(wait_times) ==
  IF wait_times = <<>> THEN 0
  ELSE Head(wait_times) + sum_wait_times(Tail(wait_times))

\* rate_limiter.py:167  max(wait_times) if wait_times else 0.0
RECURSIVE max_wait_times(_)
max_wait_times(wait_times) ==
  IF wait_times = <<>> THEN 0
  ELSE LET rest == max_wait_times(Tail(wait_times))
       IN IF Head(wait_times) > rest THEN Head(wait_times) ELSE rest

\* variant: one check drops at most one old entry
popleft_one(history, window_start) ==
  IF history # <<>> /\ Head(history) < window_start
  THEN Tail(history)
  ELSE history

\* rate_limiter.py:184  while history and history[0] < window_start: popleft
RECURSIVE popleft_old(_, _)
popleft_old(history, window_start) ==
  IF history # <<>> /\ Head(history) < window_start
  THEN popleft_old(Tail(history), window_start)
  ELSE history

\* variant: the cap may be exceeded by one before a wait is imposed
check_time_window_over(history, t, window_seconds, max_requests) ==
  LET kept == popleft_old(history, t - window_seconds)
      wait_until == kept[1] + window_seconds
  IN [request_history |-> kept,
      wait |-> IF Len(kept) > max_requests
               THEN (IF wait_until - t > 0 THEN wait_until - t ELSE 0)
               ELSE 0]

\* rate_limiter.py:169  _check_time_window: the one deque is trimmed to the
\* window at hand, then its length is compared with the cap
check_time_window(history, t, window_seconds, max_requests) ==
  LET kept == popleft_old(history, t - window_seconds)
      wait_until == kept[1] + window_seconds
  IN [request_history |-> kept,
      wait |-> IF Len(kept) >= max_requests
               THEN (IF wait_until - t > 0 THEN wait_until - t ELSE 0)
               ELSE 0]

\* a window whose cap is not configured is not looked at
window_wait(history, t, window_seconds, max_requests) ==
  IF max_requests # 0
  THEN check_time_window(history, t, window_seconds, max_requests)
  ELSE [request_history |-> history, wait |-> 0]

\* rate_limiter.py:129  _calculate_wait_time at clock t: the limiter with
\* its trimmed deque, the waits that were appended, and the result
calculate_wait_time(L, t) ==
  LET cfg == L.config
      positive(x) == IF x > 0 THEN <<x>> ELSE <<>>
      delay == IF L.last_request_time # <<>> /\ cfg.min_delay > 0
               THEN cfg.min_delay - (t - L.last_request_time[1])
               ELSE 0
      m == window_wait(L.request_history, t, MinuteWindow, cfg.requests_per_minute)
      h == window_wait(m.request_history, t, HourWindow, cfg.requests_per_hour)
      d == window_wait(h.request_history, t, DayWindow, cfg.requests_per_day)
      wait_times == positive(delay) \o positive(m.wait) \o positive(h.wait)
                      \o positive(d.wait) \o positive(L.current_backoff_delay)
  IN [limiter |-> [L EXCEPT !.request_history = d.request_history],
      wait_times |-> wait_times,
      wait |-> max_wait_times(wait_times)]

\* The methods as functions of a machine M: the limiter, the clock and the
\* history of requests.  The caller sleeps inside wait_if_needed, so the
\* value it returns is the time the clock moves.
Machine == [limiter |-> limiter, now |-> now, requests |-> requests]

\* variant: having slept, the limiter forgets the backoff
wait_if_needed_clears(M) ==
  LET r == calculate_wait_time(M.limiter, M.now)
  IN [M EXCEPT !.limiter = [r.limiter EXCEPT !.current_backoff_delay = 0,
                                             !.consecutive_429s = 0],
               !.now = M.now + r.wait]

\* rate_limiter.py:111  sleeps for the computed time and returns it
wait_if_needed(M) ==
  LET r == calculate_wait_time(M.limiter, M.now)
  IN [M EXCEPT !.limiter = r.limiter, !.now = M.now + r.wait]

\* rate_limiter.py:204
record_request(M) ==
  [M EXCEPT !.limiter.request_history = Append(@, M.now),
            !.limiter.last_request_time = <<M.now>>,
            !.requests = Append(@, M.now)]

\* variant: only the counter is reset
record_success_counter_only(M) ==
  IF M.limiter.consecutive_429s > 0
  THEN [M EXCEPT !.limiter.consecutive_429s = 0]
  ELSE M

\* rate_limiter.py:210
record_success(M) ==
  IF M.limiter.consecutive_429s > 0
  THEN [M EXCEPT !.limiter.consecutive_429s = 0,
                 !.limiter.current_backoff_delay = 0]
  ELSE M

\* rate_limiter.py:220  'if retry_after:' is false for None and for 0
record_429_response(M, retry_after) ==
  LET n == M.limiter.consecutive_429s + 1
  IN [M EXCEPT !.limiter.consecutive_429s = n,
               !.limiter.current_backoff_delay =
                  IF retry_after # <<>> /\ retry_after[1] # 0
                  THEN retry_after[1]
                  ELSE Pow(M.limiter.config.backoff_factor, n)]

\* ---------------------------------------- the limiter's callers, the clock

\* the job engine and the cache at rest
EngineUnused ==
  /\ ingestion_jobs = <<>>
  /\ restart_of = <<>>
  /\ task_queue = <<>>
  /\ documents_tracking = [h \in Hashes |-> "absent"]
  /\ sink = {}
  /\ schema = 2
  /\ data_sources = NewSources
  /\ worker = [w \in Workers |-> IdleWorker]
  /\ run = [w \in Workers |-> NoRun]
  /\ outcome = [h \in Hashes |-> "none"]

engineVars == <<jobVars, storeVars, workerVars>>

\* last_call: the method or connector handler called last, the HTTP status
\* it saw, the time it slept, the Retry-After it was handed and the backoff
\* fields as they were when it was called
Called(op, status, wait, arg) ==
  [op |-> op, status |-> status, wait |-> wait, arg |-> arg,
   was_429s |-> limiter.consecutive_429s,
   was_backoff |-> limiter.current_backoff_delay]

LimiterInit ==
  /\ EngineUnused
  /\ CacheUnused
  /\ ChunkerUnused
  /\ SchedulerUnused
  /\ ControlUnused
  /\ ApiUnused
  /\ limiter \in {NewLimiter(config) : config \in Configs}
  /\ now = 1
  /\ requests = <<>>
  /\ last_call = [op |-> "init", status |-> 0, wait |-> 0, arg |-> <<>>,
                  was_429s |-> 0, was_backoff |-> 0]

Bounded(M) ==
  /\ M.now <= MaxTime
  /\ Len(M.requests) <= MaxRequests
  /\ M.limiter.consecutive_429s <= Max429

\* the call returns: the machine it leaves becomes the state
Return(M, op, status, arg) ==
  /\ limiter' = M.limiter
  /\ now' = M.now
  /\ requests' = M.requests
  /\ last_call' = Called(op, status, M.now - now, arg)
  /\ UNCHANGED <<engineVars, cacheVars, chunkerVars, schedulerVars, controlVars, apiVars>>

\* a second passes with no call
Tick ==
  /\ now < MaxTime
  /\ now' = now + 1
  /\ last_call' = Called("tick", 0, 0, <<>>)
  /\ UNCHANGED <<limiter, requests, engineVars, cacheVars, chunkerVars, schedulerVars, controlVars, apiVars>>

WaitIfNeeded ==
  \E M \in {wait_if_needed(Machine)} :
    Bounded(M) /\ Return(M, "wait_if_needed", 0, <<>>)

RecordRequest ==
  \E M \in {record_request(Machine)} :
    Bounded(M) /\ Return(M, "record_request", 0, <<>>)

RecordSuccess ==
  \E M \in {record_success(Machine)} :
    Bounded(M) /\ Return(M, "record_success", 0, <<>>)

Record429Response(retry_after) ==
  \E M \in {record_429_response(Machine, retry_after)} :
    Bounded(M) /\ Return(M, "record_429_response", 0, retry_after)

\* rate_limiter.py:246  get_stats reads the fields and the clock
GetStats ==
  \E M \in {Machine} :
    Bounded(M) /\ Return(M, "get_stats", 0, <<>>)

\* connectors/chile_full_text_connector.py:103  fetch_xml_content.
\* status 0: requests.get raised, nothing is recorded
fetch_xml_content(status, retry_after) ==
  \E waited \in {wait_if_needed(Machine)} :
    \E sent \in {record_request(waited)} :
      \E M \in {CASE status = 0 -> waited
                  [] status = 429 -> record_429_response(sent, retry_after)
                  [] OTHER -> sent} :
        Bounded(M) /\ Return(M, "fetch_xml_content", status, retry_after)

\* connectors/congress_full_text_connector.py:75  _api_request: one retry
\* after a 429, record_success on a final 200.
\* first, second: the status of the first response and of the retry
api_request(first, retry_after, second) ==
  \E sent \in {record_request(wait_if_needed(Machine))} :
    \E last \in {IF first = 429
                 THEN record_request(wait_if_needed(
                        record_429_response(sent, retry_after)))
                 ELSE sent} :
      LET status == IF first = 429 THEN second ELSE first IN
        \E M \in {IF status = 200 THEN record_success(last) ELSE last} :
          Bounded(M) /\ Return(M, "api_request", status, retry_after)

\* connectors/chile_bcn_connector.py:102  _download_xml_content, and
\* connectors/us_congress_connector.py:93  _download_bill_xml_text: the
\* download waits and sends; no record_request, record_429_response or
\* record_success follows, whatever the status.
\* status 0: requests.get raised; otherwise the status of the response to
\* the request that was sent.  Nothing of the limiter changes after the wait
download_xml_content(status) ==
  \E M \in {wait_if_needed(Machine)} :
    Bounded(M) /\ Return(M, "download_xml_content", status, <<>>)

Statuses == {200, 429}

LimiterNext ==
  \/ Tick
  \/ WaitIfNeeded
  \/ RecordRequest
  \/ RecordSuccess
  \/ \E retry_after \in RetryAfters : Record429Response(retry_after)
  \/ GetStats
  \/ \E status \in Statuses \cup {0}, retry_after \in RetryAfters :
       fetch_xml_content(status, retry_after)
  \/ \E first \in Statuses, retry_after \in RetryAfters, second \in Statuses :
       api_request(first, retry_after, second)
  \/ \E status \in Statuses \cup {0} : download_xml_content(status)

LimiterSpec == LimiterInit /\ [][LimiterNext]_vars

\* ===================== content cache (services/content_cache_service.py)
MaxAccess == 3       \* largest access_count a get is still made at

NormIds == {"n1", "n2"}          \* external ids of the documents of a source
NoUrl == "n0"                    \* a norm whose metadata carries no xmlDoc
\* what the SPARQL query of one fetch returns (chile_bcn_connector.py:178)
FetchResults ==
  {<<>>, <<NoUrl>>, <<"n1">>, <<NoUrl, "n1">>, <<"n1", "n2">>, <<"n2", "n1">>}
Texts == {"t1", "t2"}            \* full texts a download can return
CacheKeys == {<<s, n>> : s \in {1}, n \in NormIds}   \* UNIQUE(source_id, external_id)
\* what a statement of the service can meet: "statement" is a psycopg2.Error
\* raised by execute, fetchone or commit on a live connection
Faults == {"none", "statement"}
\* source_metadata arguments of a save: None (the default), an empty dict,
\* and the dict the connector passes (chile_bcn_connector.py:222)
Metas == {"None", "{}", "date"}

\* content_cache_service.py:131  hashlib.sha256(content.encode('utf-8'))
content_sha256(content) == <<"sha256", content>>

\* variant: the read leaves the row as it is
touch_entry_readonly(table, key) ==
  [table |-> table, returned |-> table[key]]

\* content_cache_service.py:70-79  UPDATE ... SET access_count =
\* access_count + 1 WHERE source_id, external_id RETURNING ...: the row, if
\* there is one, after the update
touch_entry(table, key) ==
  IF table[key] # <<>>
  THEN LET row == [table[key][1] EXCEPT !.access_count = @ + 1]
       IN [table |-> [table EXCEPT ![key] = <<row>>], returned |-> <<row>>]
  ELSE [table |-> table, returned |-> <<>>]

\* content_cache_service.py:132  len(content.encode('utf-8'))
content_size(content) == <<"utf8_len", content>>

\* content_cache_service.py:155  json.dumps(source_metadata) if
\* source_metadata else None: None and the empty dict are both stored as NULL
metadata_json(source_metadata) ==
  IF source_metadata \in {"None", "{}"} THEN <<"NULL">>
  ELSE <<"json", source_metadata>>

\* content_cache_service.py:135-139  the row of the VALUES clause, with the
\* column default access_count = 1 (schema.py:162)
excluded_row(content, source_metadata) ==
  [content |-> content,
   content_hash |-> content_sha256(content),
   content_size |-> content_size(content),
   source_metadata |-> metadata_json(source_metadata),
   access_count |-> 1]

\* variant: on conflict the columns are replaced and the counter is kept
upsert_entry_keeps_count(table, key, content, source_metadata) ==
  IF table[key] # <<>>
  THEN [table EXCEPT ![key] =
          <<[excluded_row(content, source_metadata) EXCEPT
               !.access_count = table[key][1].access_count]>>]
  ELSE [table EXCEPT ![key] = <<excluded_row(content, source_metadata)>>]

\* content_cache_service.py:135-151  INSERT ... ON CONFLICT (source_id,
\* external_id) DO UPDATE SET content, content_hash, content_size,
\* source_metadata, ..., access_count = 1: with no row under the key the
\* row is inserted, with one its columns are overwritten
upsert_entry(table, key, content, source_metadata) ==
  IF table[key] # <<>>
  THEN [table EXCEPT ![key] =
          <<[@[1] EXCEPT
               !.content = excluded_row(content, source_metadata).content,
               !.content_hash = excluded_row(content, source_metadata).content_hash,
               !.content_size = excluded_row(content, source_metadata).content_size,
               !.source_metadata = excluded_row(content, source_metadata).source_metadata,
               !.access_count = 1]>>]
  ELSE [table EXCEPT ![key] = Append(@, excluded_row(content, source_metadata))]

\* content_cache_service.py:46-104.  On a closed connection conn.cursor()
\* raises InterfaceError, a psycopg2.Error; the handler calls
\* conn.rollback(), which raises InterfaceError again, out of the method.
\* On a live connection a failed statement is rolled back and None returned.
get_cached_content(table, conn, key, fault) ==
  IF conn = "closed"
  THEN [table |-> table, returned |-> <<>>, raised |-> TRUE]
  ELSE IF fault = "statement"
  THEN [table |-> table, returned |-> <<>>, raised |-> FALSE]
  ELSE [table |-> touch_entry(table, key).table,
        returned |-> touch_entry(table, key).returned, raised |-> FALSE]

\* content_cache_service.py:106-171, with the same handler
save_to_cache(table, conn, key, content, source_metadata, fault) ==
  IF conn = "closed"
  THEN [table |-> table, returned |-> FALSE, raised |-> TRUE]
  ELSE IF fault = "statement"
  THEN [table |-> table, returned |-> FALSE, raised |-> FALSE]
  ELSE [table |-> upsert_entry(table, key, content, source_metadata),
        returned |-> TRUE, raised |-> FALSE]

\* history kept in cache_call: per key, the content of the last save that
\* returned True and the number of gets answered from the table since
AfterGet(hist, key, res) ==
  IF res.returned # <<>>
  THEN [hist EXCEPT !.hits[key] = @ + 1]
  ELSE hist
AfterSave(hist, key, content, res) ==
  IF res.returned
  THEN [hist EXCEPT !.saved[key] = <<content>>, !.hits[key] = 0]
  ELSE hist

\* a task has been started for a queued job of a chile_bcn or us_congress
\* source and is about to build its connector (ingestion_tasks.py:145-176).
\* fetch.cache_service: get_db_connection() at line 147 gave a connection,
\* so the task holds a ContentCacheService; fetch.lookups: cache_hits +
\* cache_misses of fetch_documents
CacheStart(source_types, results, services) ==
  /\ LimiterUnused
  /\ ChunkerUnused
  /\ SchedulerUnused
  /\ ControlUnused
  /\ ApiUnused
  /\ ingestion_jobs =
       <<[NewJob(1, 1, "full_sync", "running") EXCEPT !.started_at = TRUE]>>
  /\ restart_of = <<0>>
  /\ task_queue = <<>>
  /\ documents_tracking = [h \in Hashes |-> "absent"]
  /\ sink = {}
  /\ schema = 2
  /\ \E source_type \in source_types :
       data_sources = [NewSources EXCEPT ![1].source_type = source_type]
  /\ worker = [w \in Workers |->
                 [IdleWorker EXCEPT !.pc = "connector", !.job_id = 1,
                                    !.project_id = 1, !.source_id = 1]]
  /\ run = [w \in Workers |-> NoRun]
  /\ outcome = [h \in Hashes |-> "none"]
  /\ documents_content_cache = [k \in CacheKeys |-> <<>>]
  /\ cache_conn = "open"
  /\ cache_call = [op |-> "init", key |-> <<>>, fault |-> "none",
                   returned |-> <<>>, content |-> "None",
                   source_metadata |-> "None", was |-> <<>>,
                   saved |-> [k \in CacheKeys |-> <<>>],
                   hits |-> [k \in CacheKeys |-> 0]]
  /\ \E docs \in results, cache_service \in services :
       fetch = [docs |-> docs, i |-> 0, enriched |-> <<>>,
                cache_service |-> cache_service, lookups |-> 0]

\* the cache under every caller: a chile_bcn task that holds the service
\* fetches norms, all with a download URL, while other callers get and save
CacheInit ==
  CacheStart({"chile_bcn"}, {<<"n1">>, <<"n1", "n2">>, <<"n2", "n1">>}, {TRUE})

CanGet(key) ==
  documents_content_cache[key] # <<>> =>
    documents_content_cache[key][1].access_count < MaxAccess

\* a caller of the service makes one call
GetCachedContent(key) ==
  /\ CanGet(key)
  /\ \E fault \in Faults :
       \E res \in {get_cached_content(documents_content_cache, cache_conn, key, fault)} :
         /\ documents_content_cache' = res.table
         /\ cache_call' = [AfterGet(cache_call, key, res) EXCEPT
                             !.op = "get_cached_content", !.key = key,
                             !.fault = IF res.raised THEN "closed" ELSE fault,
                             !.returned = res.returned, !.content = "None",
                             !.source_metadata = "None", !.was = <<>>]
  /\ UNCHANGED <<cache_conn, fetch, engineVars, limiterVars, chunkerVars, schedulerVars, controlVars, apiVars>>

\* what a save found under its key: the content and the counter of the row
Was(rows) ==
  [i \in 1..Len(rows) |-> [content |-> rows[i].content,
                           access_count |-> rows[i].access_count]]

SaveToCache(key, content, source_metadata) ==
  /\ \E fault \in Faults :
       \E res \in {save_to_cache(documents_content_cache, cache_conn, key,
                                 content, source_metadata, fault)} :
         /\ documents_content_cache' = res.table
         /\ cache_call' = [AfterSave(cache_call, key, content, res) EXCEPT
                             !.op = "save_to_cache", !.key = key,
                             !.fault = IF res.raised THEN "closed" ELSE fault,
                             !.returned = <<>>,
                             !.content = IF res.returned THEN content ELSE "None",
                             !.source_metadata =
                               IF res.returned THEN source_metadata ELSE "None",
                             !.was = IF res.returned
                                     THEN Was(documents_content_cache[key])
                                     ELSE <<>>]
  /\ UNCHANGED <<cache_conn, fetch, engineVars, limiterVars, chunkerVars, schedulerVars, controlVars, apiVars>>

\* the store goes away: the connection the service holds is dead from now on
ConnectionLost ==
  /\ cache_conn = "open"
  /\ cache_conn' = "closed"
  /\ UNCHANGED <<documents_content_cache, cache_call, fetch, engineVars, limiterVars, chunkerVars, schedulerVars, controlVars, apiVars>>

\* ingestion_tasks.py:164-172  the keyword arguments added to config and
\* rate_limit_config
connector_kwargs(source_type, cache_service) ==
  IF cache_service /\ source_type \in {"chile_bcn", "us_congress"}
  THEN {"cache_service", "source_id"}
  ELSE {}

\* the keyword parameters __init__ takes besides config and
\* rate_limit_config (chile_bcn_connector.py:67-68,
\* us_congress_connector.py:47)
init_accepts(source_type) ==
  IF source_type = "chile_bcn" THEN {"cache_service", "source_id"} ELSE {}

\* ingestion_tasks.py:175  connector_class(**connector_kwargs): a keyword
\* __init__ does not take is a TypeError, caught by the outer handler.
\* The connector holds a cache service only if it was handed one.
NewConnector(w) ==
  /\ worker[w].pc = "connector"
  /\ LET source_type == data_sources[worker[w].source_id].source_type
         kwargs == connector_kwargs(source_type, fetch.cache_service)
     IN IF kwargs \subseteq init_accepts(source_type)
        THEN /\ worker' = [worker EXCEPT ![w].pc = "fetch"]
             /\ fetch' = [fetch EXCEPT !.cache_service =
                                          "cache_service" \in kwargs]
        ELSE /\ worker' = [worker EXCEPT ![w].pc = "failing",
                                         ![w].exc = "TypeError"]
             /\ UNCHANGED fetch
  /\ UNCHANGED <<jobVars, storeVars, run, documents_content_cache, cache_conn, cache_call, limiterVars, chunkerVars, schedulerVars, controlVars, apiVars>>

\* connectors/chile_bcn_connector.py:187-234  one turn of the loop of
\* ChileBCNConnector.fetch_documents: a norm without xmlDoc keeps its title;
\* otherwise look the norm up in the cache; on a miss download it and, if
\* that gave a text, save it.  Neither cache call is inside a try, so what
\* they raise leaves fetch_documents and reaches the task's outer handler.
\* Without a cache service the norm is downloaded, as in
\* USCongressConnector.fetch_documents (us_congress_connector.py:217-243).
\*   text   what the download returns ("None": it failed; the title is used)
\*   lost   the store goes away while the text is downloaded
EnrichDocument(w) ==
  /\ worker[w].pc = "fetch"
  /\ fetch.i < Len(fetch.docs)
  /\ LET norm_id == fetch.docs[fetch.i + 1]
         key == <<worker[w].source_id, norm_id>>
         raise == /\ worker' = [worker EXCEPT ![w].pc = "failing",
                                              ![w].exc = "cache_error"]
                  /\ UNCHANGED fetch
         next(full_text, looked) ==
           /\ fetch' = [fetch EXCEPT !.i = @ + 1,
                                     !.enriched = Append(@, full_text),
                                     !.lookups = @ + looked]
           /\ UNCHANGED worker
     IN IF norm_id = NoUrl
        THEN /\ next("title", 0)
             /\ UNCHANGED <<documents_content_cache, cache_conn, cache_call>>
        ELSE IF ~fetch.cache_service
        THEN /\ \E text \in Texts \cup {"None"} :
                  next(IF text = "None" THEN "title" ELSE text, 0)
             /\ UNCHANGED <<documents_content_cache, cache_conn, cache_call>>
        ELSE
        /\ CanGet(key)
        /\ \E gfault \in Faults, text \in Texts \cup {"None"},
              lost \in BOOLEAN, sfault \in Faults :
             \E got \in {get_cached_content(documents_content_cache, cache_conn,
                                           key, gfault)} :
               LET h1 == [AfterGet(cache_call, key, got) EXCEPT
                            !.op = "fetch_documents", !.key = key,
                            !.returned = <<>>, !.content = "None",
                            !.source_metadata = "None", !.was = <<>>]
                   conn == IF lost THEN "closed" ELSE cache_conn
               IN IF got.raised
                  THEN /\ raise
                       /\ cache_call' = [h1 EXCEPT !.fault = "closed"]
                       /\ UNCHANGED <<documents_content_cache, cache_conn>>
                  ELSE IF got.returned # <<>>
                  THEN /\ next(got.returned[1].content, 1)
                       /\ documents_content_cache' = got.table
                       /\ cache_call' = [h1 EXCEPT !.fault = gfault]
                       /\ UNCHANGED cache_conn
                  ELSE IF text = "None"
                  THEN /\ next("title", 1)
                       /\ documents_content_cache' = got.table
                       /\ cache_call' = [h1 EXCEPT !.fault = gfault]
                       /\ UNCHANGED cache_conn
                  ELSE \E put \in {save_to_cache(got.table, conn, key, text,
                                                 "date", sfault)} :
                         /\ documents_content_cache' = put.table
                         /\ cache_conn' = conn
                         /\ cache_call' =
                              [AfterSave(h1, key, text, put) EXCEPT
                                 !.fault = IF put.raised THEN "closed"
                                           ELSE IF gfault # "none" THEN gfault
                                           ELSE sfault]
                         /\ IF put.raised THEN raise ELSE next(text, 1)
  /\ UNCHANGED <<jobVars, storeVars, run, limiterVars, chunkerVars, schedulerVars, controlVars, apiVars>>

\* chile_bcn_connector.py:241-246 and ingestion_tasks.py:181-187: with a
\* cache service the hit rate cache_hits/(cache_hits+cache_misses) is
\* logged, a ZeroDivisionError when no norm was looked up; then the
\* enriched list is returned and its length stored as total_documents
ReturnDocuments(w) ==
  /\ worker[w].pc = "fetch"
  /\ fetch.i = Len(fetch.docs)
  /\ LET docs == [k \in 1..Len(fetch.docs) |->
                    [id |-> fetch.docs[k], title |-> "title",
                     content |-> fetch.enriched[k]]]
     IN IF fetch.cache_service /\ fetch.lookups = 0
        THEN /\ worker' = [worker EXCEPT ![w].pc = "failing",
                                         ![w].exc = "ZeroDivisionError"]
             /\ UNCHANGED ingestion_jobs
        ELSE
        /\ worker' = [worker EXCEPT ![w].pc = "init", ![w].documents = docs,
                                    ![w].total_documents = Len(docs)]
        /\ ingestion_jobs' = update_job_progress(ingestion_jobs, worker[w].job_id,
                                [total_documents |-> Len(docs)])
  /\ UNCHANGED <<restart_of, task_queue, storeVars, run, cacheVars, limiterVars, chunkerVars, schedulerVars, controlVars, apiVars>>

CacheNext ==
  \/ \E key \in CacheKeys : GetCachedContent(key)
  \/ \E key \in CacheKeys, content \in Texts, source_metadata \in Metas :
       SaveToCache(key, content, source_metadata)
  \/ ConnectionLost
  \/ \E w \in Workers : NewConnector(w)
  \/ \E w \in Workers : EnrichDocument(w)
  \/ \E w \in Workers : ReturnDocuments(w)
  \/ \E w \in Workers : FailTask(w) /\ UNCHANGED otherVars

CacheSpec == CacheInit /\ [][CacheNext]_vars

\* the fetch of one task alone, for both source types the task hands a cache
\* service to, every fetch result, with and without a cache service
FetchInit == CacheStart({"chile_bcn", "us_congress"}, FetchResults, BOOLEAN)

FetchNext ==
  \/ ConnectionLost
  \/ \E w \in Workers : NewConnector(w)
  \/ \E w \in Workers : EnrichDocument(w)
  \/ \E w \in Workers : ReturnDocuments(w)
  \/ \E w \in Workers : FailTask(w) /\ UNCHANGED otherVars

FetchSpec == FetchInit /\ [][FetchNext]_vars

\* ============================================== adaptive chunker
\* processors/adaptive_chunker.py.  A text is a sequence of characters.
\* Sizes are scaled down: the thresholds are constructor arguments
\* (adaptive_chunker.py:38-57), the chunk sizes and the overlap are the
\* arguments of chunk_document and their class defaults.

MaxLen == 7          \* longest document content

\* a lower-case letter, an upper-case letter, a line break; no digits, so
\* the \d+\. branch of the section pattern never matches
Chars == {"a", "A", "\n"}
Whitespace == {"\n"}
Upper == {"A"}
Contents == UNION {[1..k -> Chars] : k \in 0..MaxLen}

small_threshold == 2     \* SMALL_DOC_THRESHOLD = 2000
medium_threshold == 4    \* MEDIUM_DOC_THRESHOLD = 5000
large_threshold == 6     \* LARGE_DOC_THRESHOLD = 15000
SMALL_CHUNK_SIZE == 2    \* 1000
MEDIUM_CHUNK_SIZE == 3   \* 1500
LARGE_CHUNK_SIZE == 4    \* 2000
OVERLAP == 1             \* 200
HeaderRun == 2           \* the {10,} of section_pattern

\* a call may loop for ever; the model follows it for this many chunks,
\* more than any call that returns appends
MaxChunks == MaxLen + 2

None == -1      \* Python's None where a number is expected

\* arguments of chunk_document (None is their default)
ChunkSizes == {None} \cup 1..3
Overlaps == {None} \cup 0..2

Min2(a, b) == IF a <= b THEN a ELSE b
Max2(a, b) == IF a >= b THEN a ELSE b

\* Python's s[a:b]: a negative index counts from the end, indices are
\* clamped to 0..len(s), an empty range gives ''
py_index(i, n) == IF i < 0 THEN Max2(n + i, 0) ELSE Min2(i, n)
py_slice(s, a, b) ==
  LET lo == py_index(a, Len(s))
      hi == py_index(b, Len(s))
  IN IF lo < hi THEN SubSeq(s, lo + 1, hi) ELSE <<>>
\* s[a:]
py_slice_from(s, a) == py_slice(s, a, Len(s))

\* str.strip()
RECURSIVE lstrip(_)
lstrip(s) ==
  IF s # <<>> /\ Head(s) \in Whitespace THEN lstrip(Tail(s)) ELSE s
RECURSIVE rstrip(_)
rstrip(s) ==
  IF s # <<>> /\ s[Len(s)] \in Whitespace
  THEN rstrip(SubSeq(s, 1, Len(s) - 1)) ELSE s
strip(s) == rstrip(lstrip(s))

\* last index of the longest run of characters of class C that starts at p
\* (p - 1 if s[p] is not in C)
RECURSIVE run_end(_, _, _)
run_end(s, p, C) ==
  IF p <= Len(s) /\ s[p] \in C THEN run_end(s, p + 1, C) ELSE p - 1

\* adaptive_chunker.py:230  r'\n\s*\n' matched at i: a line break, as much
\* white space as there is, a line break.  0 if there is no match at i,
\* else the index of the last character matched.
paragraph_match(s, i) ==
  IF i <= Len(s) /\ s[i] = "\n"
  THEN LET q == run_end(s, i + 1, Whitespace)
           ends == {r \in (i + 1)..q : s[r] = "\n"}
       IN IF ends = {} THEN 0 ELSE CHOOSE r \in ends : \A x \in ends : x <= r
  ELSE 0

\* the [A-Z\s]{10,}\n part of section_pattern from p on: greedy, so the last
\* line break of the run that has at least HeaderRun characters before it
header_match(s, p) ==
  LET q == run_end(s, p, Upper \cup Whitespace)
      ends == {r \in p..q : s[r] = "\n" /\ r - p >= HeaderRun}
  IN IF ends = {} THEN 0 ELSE CHOOSE r \in ends : \A x \in ends : x <= r

\* adaptive_chunker.py:312  r'(?:^|\n)(?:\d+\.|[A-Z\s]{10,})\n' matched at
\* i: without re.MULTILINE ^ is the start of the text only, and it is
\* tried before \n
section_match(s, i) ==
  IF i = 1 /\ header_match(s, 1) # 0 THEN header_match(s, 1)
  ELSE IF i <= Len(s) /\ s[i] = "\n" THEN header_match(s, i + 1)
  ELSE 0

\* re.split(pattern, s): the texts between the matches, found left to
\* right, each search starting where the last match ended
RECURSIVE paragraphs_from(_, _, _)
paragraphs_from(s, i, cur) ==
  IF i > Len(s) THEN <<cur>>
  ELSE IF paragraph_match(s, i) # 0
  THEN <<cur>> \o paragraphs_from(s, paragraph_match(s, i) + 1, <<>>)
  ELSE paragraphs_from(s, i + 1, Append(cur, s[i]))
split_paragraphs(s) == paragraphs_from(s, 1, <<>>)

RECURSIVE sections_from(_, _, _)
sections_from(s, i, cur) ==
  IF i > Len(s) THEN <<cur>>
  ELSE IF section_match(s, i) # 0
  THEN <<cur>> \o sections_from(s, section_match(s, i) + 1, <<>>)
  ELSE sections_from(s, i + 1, Append(cur, s[i]))
split_sections(s) == sections_from(s, 1, <<>>)

\* the chunk dict the strategies append (adaptive_chunker.py:186-196)
new_chunk(document, chunk_index, text, strategy) ==
  [id |-> <<document.id, "chunk", chunk_index>>,
   content |-> text,
   chunk_index |-> chunk_index,
   total_chunks |-> None,
   chunking_strategy |-> strategy,
   source_document_id |-> document.id]

\* variant: the closing loop leaves total_chunks as it finds it
set_total_chunks_skipped(chunks) == chunks

\* adaptive_chunker.py:201-204  total = len(chunks); every chunk gets it
set_total_chunks(chunks) ==
  [i \in 1..Len(chunks) |-> [chunks[i] EXCEPT !.total_chunks = Len(chunks)]]

\* adaptive_chunker.py:148-158
create_single_chunk(document) ==
  <<[new_chunk(document, 0, document.content, "none") EXCEPT
       !.total_chunks = 1]>>

\* adaptive_chunker.py:236-263  the loop over the paragraphs from the k-th
\* on; texts are the chunk texts saved so far
RECURSIVE paragraph_loop(_, _, _, _, _, _)
paragraph_loop(paragraphs, k, texts, current_chunk, chunk_size, overlap) ==
  IF k > Len(paragraphs)
  THEN [texts |-> texts, current_chunk |-> current_chunk]
  ELSE LET para == paragraphs[k]
       IN IF Len(current_chunk) + Len(para) > chunk_size /\ current_chunk # <<>>
          THEN paragraph_loop(paragraphs, k + 1,
                 Append(texts, strip(current_chunk)),
                 IF Len(current_chunk) > overlap
                 THEN py_slice_from(current_chunk, 0 - overlap)
                        \o <<"\n", "\n">> \o para
                 ELSE para,
                 chunk_size, overlap)
          ELSE paragraph_loop(paragraphs, k + 1, texts,
                 IF current_chunk # <<>>
                 THEN current_chunk \o <<"\n", "\n">> \o para
                 ELSE para,
                 chunk_size, overlap)

\* adaptive_chunker.py:208-284
recursive_chunking(document, chunk_size, overlap) ==
  LET after == paragraph_loop(split_paragraphs(document.content), 1, <<>>,
                              <<>>, chunk_size, overlap)
      texts == IF after.current_chunk # <<>>
               THEN Append(after.texts, strip(after.current_chunk))
               ELSE after.texts
  IN set_total_chunks([i \in 1..Len(texts) |->
                         new_chunk(document, i - 1, texts[i], "recursive")])

\* adaptive_chunker.py:337-343  the chunks of a section take the next
\* indices and the document's id
renumber(document, section_chunks, chunk_index) ==
  [i \in 1..Len(section_chunks) |->
     [section_chunks[i] EXCEPT
        !.id = <<document.id, "chunk", chunk_index + i - 1>>,
        !.chunk_index = chunk_index + i - 1,
        !.chunking_strategy = "multi_level",
        !.source_document_id = document.id]]

\* adaptive_chunker.py:319-357  the loop over the sections from the k-th on
RECURSIVE section_loop(_, _, _, _, _, _)
section_loop(document, sections, k, all_chunks, chunk_size, overlap) ==
  IF k > Len(sections) THEN all_chunks
  ELSE LET section == sections[k]
           chunk_index == Len(all_chunks)
       IN IF strip(section) = <<>>
          THEN section_loop(document, sections, k + 1, all_chunks,
                            chunk_size, overlap)
          ELSE IF Len(section) > chunk_size * 2
          THEN section_loop(document, sections, k + 1,
                 all_chunks \o
                   renumber(document,
                            recursive_chunking(
                              [id |-> <<document.id, "section">>,
                               content |-> section],
                              chunk_size, overlap),
                            chunk_index),
                 chunk_size, overlap)
          ELSE section_loop(document, sections, k + 1,
                 Append(all_chunks,
                        new_chunk(document, chunk_index, strip(section),
                                  "multi_level")),
                 chunk_size, overlap)

\* adaptive_chunker.py:286-364
multi_level_chunking(document, chunk_size, overlap) ==
  set_total_chunks(section_loop(document, split_sections(document.content), 1,
                                <<>>, chunk_size, overlap))

\* adaptive_chunker.py:59-78
determine_strategy(content) ==
  IF Len(content) <= small_threshold THEN "none"
  ELSE IF Len(content) <= medium_threshold THEN "standard"
  ELSE IF Len(content) <= large_threshold THEN "recursive"
  ELSE "multi_level"

\* Python's `x or default`: None and 0 both give the default
Or(x, default) == IF x \in {None, 0} THEN default ELSE x

\* ------------------------------------- one chunk_document call, step by step
\* a chunker built with overlap = self_overlap (ingestion_tasks.py:199-201
\* passes the project's chunk_overlap) is about to be called
ChunkerInit ==
  /\ EngineUnused
  /\ LimiterUnused
  /\ CacheUnused
  /\ SchedulerUnused
  /\ ControlUnused
  /\ ApiUnused
  /\ \E content \in Contents, chunk_size \in ChunkSizes, overlap \in Overlaps,
        self_overlap \in {0, OVERLAP} :
       chunking = [pc |-> "call",
                   self_overlap |-> self_overlap,
                   document |-> [id |-> "d1", content |-> content],
                   chunk_size |-> chunk_size,
                   overlap |-> overlap,
                   strategy |-> "None",
                   used_chunk_size |-> 0,
                   used_overlap |-> 0,
                   start |-> 0,
                   chunks |-> <<>>]

\* adaptive_chunker.py:97-136  chunk_document up to the strategy's call;
\* the three strategies that are a loop over a list return here, standard
\* chunking enters its while loop
ChunkDocument ==
  /\ chunking.pc = "call"
  /\ LET document == chunking.document
         strategy == determine_strategy(document.content)
         overlap == Or(chunking.overlap, chunking.self_overlap)
         return(chunk_size, chunks) ==
           chunking' = [chunking EXCEPT !.pc = "returned",
                                        !.strategy = strategy,
                                        !.used_chunk_size = chunk_size,
                                        !.used_overlap = overlap,
                                        !.chunks = chunks]
     IN IF document.content = <<>>
        THEN chunking' = [chunking EXCEPT !.pc = "returned"]
        ELSE IF strategy = "none"
        THEN return(0, create_single_chunk(document))
        ELSE IF strategy = "standard"
        THEN chunking' = [chunking EXCEPT
               !.pc = "standard",
               !.strategy = strategy,
               !.used_chunk_size = Or(chunking.chunk_size, SMALL_CHUNK_SIZE),
               !.used_overlap = overlap,
               !.start = 0]
        ELSE IF strategy = "recursive"
        THEN \E chunk_size \in {Or(chunking.chunk_size, MEDIUM_CHUNK_SIZE)} :
               return(chunk_size,
                      recursive_chunking(document, chunk_size, overlap))
        ELSE \E chunk_size \in {Or(chunking.chunk_size, LARGE_CHUNK_SIZE)} :
               return(chunk_size,
                      multi_level_chunking(document, chunk_size, overlap))
  /\ UNCHANGED <<engineVars, limiterVars, cacheVars, schedulerVars, controlVars, apiVars>>

\* variant: the next window starts where this one ends
StandardLoop_no_overlap ==
  /\ chunking.pc = "standard"
  /\ chunking.start < Len(chunking.document.content)
  /\ Len(chunking.chunks) < MaxChunks
  /\ LET end == chunking.start + chunking.used_chunk_size
         chunk_text == py_slice(chunking.document.content, chunking.start, end)
     IN chunking' = [chunking EXCEPT
          !.chunks = Append(@, new_chunk(chunking.document, Len(@),
                                         chunk_text, "standard")),
          !.start = end]
  /\ UNCHANGED <<engineVars, limiterVars, cacheVars, schedulerVars, controlVars, apiVars>>

\* adaptive_chunker.py:182-199  one turn of the while loop of
\* _standard_chunking
StandardLoop ==
  /\ chunking.pc = "standard"
  /\ chunking.start < Len(chunking.document.content)
  /\ Len(chunking.chunks) < MaxChunks
  /\ LET end == chunking.start + chunking.used_chunk_size
         chunk_text == py_slice(chunking.document.content, chunking.start, end)
     IN chunking' = [chunking EXCEPT
          !.chunks = Append(@, new_chunk(chunking.document, Len(@),
                                         chunk_text, "standard")),
          !.start = end - chunking.used_overlap]
  /\ UNCHANGED <<engineVars, limiterVars, cacheVars, schedulerVars, controlVars, apiVars>>

\* adaptive_chunker.py:201-206  the loop is left; chunk_document returns
StandardReturn ==
  /\ chunking.pc = "standard"
  /\ chunking.start >= Len(chunking.document.content)
  /\ chunking' = [chunking EXCEPT !.pc = "returned",
                                  !.chunks = set_total_chunks(@)]
  /\ UNCHANGED <<engineVars, limiterVars, cacheVars, schedulerVars, controlVars, apiVars>>

ChunkerNext ==
  \/ ChunkDocument
  \/ StandardLoop
  \/ StandardReturn

ChunkerSpec == ChunkerInit /\ [][ChunkerNext]_vars

\* the calls that take the standard strategy; the interpreter goes on
\* running a call that can take a step
StandardInit ==
  /\ ChunkerInit
  /\ determine_strategy(chunking.document.content) = "standard"

StandardSpec == StandardInit /\ [][ChunkerNext]_vars /\ WF_vars(ChunkerNext)

\* ============================================== schedules
\* services/scheduler_service.py and POST /sources/{id}/schedule.  A
\* sync_frequency string is a sequence of tokens: the words of the formats,
\* the colon, a blank, a digit, a unit letter, another letter, a star.

MaxTokens == 4       \* longest sync_frequency string drawn token by token

Tokens == {"manual", "hourly", "interval", "cron", ":", " ", "5", "m", "x", "*"}
Digits == {"5"}
\* longer strings of the documented formats and near misses of them
LongFrequencies ==
  {<<"daily">>, <<"weekly">>,
   <<"interval", ":", "5", "h">>, <<"interval", ":", "5", "d">>,
   <<"interval", ":", "5", "m", ":", "x">>,
   <<"cron", ":", "5", " ", "5", " ", "*">>,
   <<"cron", ":", "5", " ", "5", " ", "*", " ", "*", " ", "*">>,
   <<"cron", ":", "x", " ", "5", " ", "*", " ", "*", " ", "*">>,
   <<"cron", ":", "5", " ", "5", " ", "*", " ", "*", " ", "*", " ", "*">>}
Frequencies ==
  UNION {[1..k -> Tokens] : k \in 0..MaxTokens} \cup LongFrequencies

\* str.startswith
startswith(s, prefix) ==
  Len(s) >= Len(prefix) /\ SubSeq(s, 1, Len(prefix)) = prefix

\* first index from i on at which s has token t, Len(s) + 1 if none
RECURSIVE find(_, _, _)
find(s, t, i) ==
  IF i > Len(s) \/ s[i] = t THEN i ELSE find(s, t, i + 1)

\* s.split(":")[1] of a string that has a colon
split_colon_1(s) ==
  LET c1 == find(s, ":", 1)
      c2 == find(s, ":", c1 + 1)
  IN SubSeq(s, c1 + 1, c2 - 1)

\* s.split(":", 1)[1] of a string that has a colon
split_colon_rest(s) == SubSeq(s, find(s, ":", 1) + 1, Len(s))

\* s.split(): the runs of tokens between blanks
RECURSIVE split_blank(_, _)
split_blank(s, cur) ==
  IF s = <<>> THEN IF cur = <<>> THEN <<>> ELSE <<cur>>
  ELSE IF Head(s) = " "
  THEN (IF cur = <<>> THEN <<>> ELSE <<cur>>) \o split_blank(Tail(s), <<>>)
  ELSE split_blank(Tail(s), Append(cur, Head(s)))

RECURSIVE strip_blank(_)
strip_blank(s) ==
  IF s # <<>> /\ Head(s) = " " THEN strip_blank(Tail(s))
  ELSE IF s # <<>> /\ s[Len(s)] = " " THEN strip_blank(SubSeq(s, 1, Len(s) - 1))
  ELSE s

\* int(s): blanks around the digits are allowed; anything else raises
\* ValueError.  The value of a string of n digits 5.
int_ok(s) ==
  /\ strip_blank(s) # <<>>
  /\ \A i \in 1..Len(strip_blank(s)) : strip_blank(s)[i] \in Digits
RECURSIVE int_value(_)
int_value(s) ==
  IF strip_blank(s) = <<>> THEN 0
  ELSE 10 * int_value(SubSeq(strip_blank(s), 1, Len(strip_blank(s)) - 1)) + 5

\* what parse_schedule_config gives back: a config dict by its "type" and
\* its other entries in order (the presets' numbers as they are written)
NoConfig == [type |-> "None", args |-> <<>>]            \* return None
ValueError == [type |-> "ValueError", args |-> <<>>]    \* int() raised
IntervalConfig(unit, n) == [type |-> "interval", args |-> <<unit, n>>]
CronConfig(fields) == [type |-> "cron", args |-> fields]

\* scheduler_service.py:56-66  the interval branch; "fall" when the string
\* ends in none of the units and the function goes on to the cron test
interval_branch(sync_frequency) ==
  LET interval_str == split_colon_1(sync_frequency)
      number == SubSeq(interval_str, 1, Len(interval_str) - 1)
      unit == IF interval_str = <<>> THEN "" ELSE interval_str[Len(interval_str)]
  IN IF unit \in {"m", "h", "d"}
     THEN IF int_ok(number)
          THEN IntervalConfig(CASE unit = "m" -> "minutes"
                                [] unit = "h" -> "hours"
                                [] unit = "d" -> "days",
                              int_value(number))
          ELSE ValueError
     ELSE [type |-> "fall", args |-> <<>>]

\* scheduler_service.py:30-83
parse_schedule_config(sync_frequency) ==
  IF sync_frequency = <<>> \/ sync_frequency = <<"manual">> THEN NoConfig
  ELSE IF sync_frequency = <<"hourly">> THEN IntervalConfig("hours", 1)
  ELSE IF sync_frequency = <<"daily">> THEN CronConfig(<<<<"0">>, <<"0">>>>)
  ELSE IF sync_frequency = <<"weekly">> THEN CronConfig(<<<<"0">>, <<"0">>, <<"0">>>>)
  ELSE IF /\ startswith(sync_frequency, <<"interval", ":">>)
          /\ interval_branch(sync_frequency).type # "fall"
  THEN interval_branch(sync_frequency)
  ELSE IF /\ startswith(sync_frequency, <<"cron", ":">>)
          /\ Len(split_blank(split_colon_rest(sync_frequency), <<>>)) = 5
  THEN CronConfig(split_blank(split_colon_rest(sync_frequency), <<>>))
  ELSE NoConfig

\* apscheduler's CronTrigger raises ValueError for a field that is not a
\* cron expression; here a field is one if it is made of digits and stars
cron_fields_ok(fields) ==
  \A i \in 1..Len(fields) :
    \A k \in 1..Len(fields[i]) : fields[i][k] \in Digits \cup {"*", "0"}

\* scheduler_service.py:150-186  job is the source's entry in the
\* scheduler, <<>> when it has none
add_source_schedule(job, sync_frequency) ==
  LET config == parse_schedule_config(sync_frequency)
  IN IF config.type = "ValueError"
     THEN [job |-> job, config |-> config, returned |-> "ValueError"]
     ELSE IF config.type = "None"
     THEN [job |-> job, config |-> config, returned |-> "False"]
     ELSE IF config.type = "cron" /\ ~cron_fields_ok(config.args)
     THEN [job |-> <<>>, config |-> config, returned |-> "ValueError"]
     ELSE [job |-> <<config>>, config |-> config, returned |-> "True"]

\* a source with no schedule, or with an hourly one, is about to get the
\* request POST /sources/{id}/schedule?sync_frequency=...
SchedulerInit ==
  /\ EngineUnused
  /\ LimiterUnused
  /\ CacheUnused
  /\ ChunkerUnused
  /\ ControlUnused
  /\ ApiUnused
  /\ \E arg \in Frequencies, old \in {<<"manual">>, <<"hourly">>} :
       scheduling = [pc |-> "request",
                     arg |-> arg,
                     sync_frequency |-> old,
                     job |-> add_source_schedule(<<>>, old).job,
                     config |-> NoConfig,
                     response |-> "none"]

otherThanScheduler == <<engineVars, limiterVars, cacheVars, chunkerVars, controlVars, apiVars>>

\* api/main.py:1306-1366  update_source_schedule: the column is written
\* and committed, then the scheduler is updated
update_source_schedule ==
  /\ scheduling.pc = "request"
  /\ IF scheduling.arg = <<"manual">>
     THEN scheduling' = [scheduling EXCEPT
            !.pc = "responded",
            !.sync_frequency = scheduling.arg,
            !.job = <<>>,
            !.response = "200 Schedule removed"]
     ELSE \E res \in {add_source_schedule(scheduling.job, scheduling.arg)} :
            scheduling' = [scheduling EXCEPT
              !.pc = "responded",
              !.sync_frequency = scheduling.arg,
              !.job = res.job,
              !.config = res.config,
              !.response = CASE res.returned = "True" -> "200 Schedule updated"
                             [] res.returned = "False" ->
                                  "400 Invalid sync_frequency format"
                             [] OTHER -> "500"]
  /\ UNCHANGED otherThanScheduler

\* scheduler_service.py:200-224 and 275-282  the API process starts again:
\* the scheduler is empty and load_all_schedules adds the sources whose
\* column is not 'manual'; what add_source_schedule raises is logged
load_all_schedules ==
  /\ scheduling.pc = "responded"
  /\ IF scheduling.sync_frequency = <<"manual">>
     THEN scheduling' = [scheduling EXCEPT !.pc = "loaded", !.job = <<>>,
                                           !.response = "not selected"]
     ELSE \E res \in {add_source_schedule(<<>>, scheduling.sync_frequency)} :
            scheduling' = [scheduling EXCEPT
              !.pc = "loaded",
              !.job = res.job,
              !.config = res.config,
              !.response = res.returned]
  /\ UNCHANGED otherThanScheduler

SchedulerNext ==
  \/ update_source_schedule
  \/ load_all_schedules

SchedulerSpec == SchedulerInit /\ [][SchedulerNext]_vars

\* ================== job control requests and their answers (api/main.py)
\* Each endpoint reads the row's status, answers 404 when there is no row
\* and 400 when the status is not one it accepts, before any write.

\* the sources of these runs return no document or the first document
ControlFeeds == {docs \in Feeds : \A k \in 1..Len(docs) : docs[k].id = 1}

\* api/main.py:664-668
cancel_job_400(j) ==
  /\ j \in JobIds
  /\ ingestion_jobs[j].status \notin {"pending", "queued", "running"}
  /\ UNCHANGED engineVars

\* api/main.py:852-856
pause_job_400(j) ==
  /\ j \in JobIds
  /\ ingestion_jobs[j].status # "running"
  /\ UNCHANGED engineVars

\* api/main.py:896-900
resume_job_400(j) ==
  /\ j \in JobIds
  /\ ingestion_jobs[j].status # "paused"
  /\ UNCHANGED engineVars

\* api/main.py:950-954
start_job_400(j) ==
  /\ j \in JobIds
  /\ ingestion_jobs[j].status # "pending"
  /\ UNCHANGED engineVars

\* api/main.py:755-759
restart_job_400(j) ==
  /\ j \in JobIds
  /\ ingestion_jobs[j].status \notin {"failed", "cancelled"}
  /\ UNCHANGED engineVars

\* the SELECT by id finds no row
job_404(j) ==
  /\ j \notin JobIds
  /\ UNCHANGED engineVars

Answer(op, j, response) ==
  [op |-> op, job_id |-> j, response |-> response,
   was |-> IF j \in JobIds THEN ingestion_jobs[j].status ELSE "no row"]

\* one request to a job control endpoint and what it answers
ControlRequest(op, j, accepted, rejected) ==
  /\ \/ accepted /\ control' = Answer(op, j, 200)
     \/ rejected /\ control' = Answer(op, j, 400)
     \/ job_404(j) /\ control' = Answer(op, j, 404)
  /\ UNCHANGED <<limiterVars, cacheVars, chunkerVars, schedulerVars, apiVars>>

\* a step of the job engine that is not a job control request
EngineStep(A) ==
  /\ A
  /\ control' = <<>>
  /\ UNCHANGED <<limiterVars, cacheVars, chunkerVars, schedulerVars, apiVars>>

ControlNext ==
  \/ \E j \in 1..MaxJobs : ControlRequest("cancel", j, cancel_job(j), cancel_job_400(j))
  \/ \E j \in 1..MaxJobs : ControlRequest("pause", j, pause_job(j), pause_job_400(j))
  \/ \E j \in 1..MaxJobs : ControlRequest("resume", j, resume_job(j), resume_job_400(j))
  \/ \E j \in 1..MaxJobs : ControlRequest("start", j, start_job(j), start_job_400(j))
  \/ \E j \in 1..MaxJobs : ControlRequest("restart", j, restart_job(j), restart_job_400(j))
  \/ \E p \in Projects, s \in Sources : EngineStep(create_ingestion_job(p, s))
  \/ \E p \in Projects, s \in Sources : EngineStep(trigger_sync_job(p, s))
  \/ \E w \in Workers : EngineStep(StartTask(w))
  \/ \E w \in Workers : EngineStep(fetch_documents(w, ControlFeeds))
  \/ \E w \in Workers : EngineStep(InitServices(w))
  \/ \E w \in Workers : EngineStep(BeginDocument(w))
  \/ \E w \in Workers : EngineStep(FinishDocument(w))
  \/ \E w \in Workers : EngineStep(CompleteTask(w))
  \/ \E w \in Workers : EngineStep(FailTask(w))

ControlSpec == Init /\ [][ControlNext]_vars

\* ============ concurrent workers and API requests (api/main.py, RQ workers)
\* Two RQ workers take calls from the one queue, and two API requests can
\* be in flight.  cancel_job and start_job are each two steps here: the
\* SELECT of the row with the status check, and the UPDATE (with the
\* enqueue, for start_job) that follows it in the same handler.

RaceWorkers == {"w1", "w2"}
Handlers == {"a1", "a2"}
RaceSources == {1}      \* the jobs of these runs are jobs of one source

IdleHandler == [pc |-> "idle", op |-> "none", job_id |-> 0]

\* the sources of these runs return no document or the first document
RaceFeeds == {docs \in Feeds : \A k \in 1..Len(docs) : docs[k].id = 1}

RaceInit ==
  /\ LimiterUnused
  /\ CacheUnused
  /\ ChunkerUnused
  /\ SchedulerUnused
  /\ ControlUnused
  /\ ingestion_jobs = <<>>
  /\ restart_of = <<>>
  /\ task_queue = <<>>
  /\ documents_tracking = [h \in Hashes |-> "absent"]
  /\ sink = {}
  /\ schema \in {1, 2}
  /\ data_sources = NewSources
  /\ worker = [w \in RaceWorkers |-> IdleWorker]
  /\ run = [w \in RaceWorkers |-> NoRun]
  /\ outcome = [h \in Hashes |-> "none"]
  /\ api = [a \in Handlers |-> IdleHandler]

\* api/main.py:657-669  cancel_job up to its status check
cancel_job_select(a, j) ==
  /\ api[a].pc = "idle"
  /\ j \in JobIds
  /\ ingestion_jobs[j].status \in {"pending", "queued", "running"}
  /\ api' = [api EXCEPT ![a] = [pc |-> "update", op |-> "cancel", job_id |-> j]]
  /\ UNCHANGED engineVars

\* api/main.py:671-677  UPDATE ... SET status = 'cancelled' WHERE id
cancel_job_update(a) ==
  /\ api[a].pc = "update"
  /\ api[a].op = "cancel"
  /\ ingestion_jobs' = [ingestion_jobs EXCEPT ![api[a].job_id].status = "cancelled",
                                               ![api[a].job_id].completed_at = TRUE]
  /\ api' = [api EXCEPT ![a] = IdleHandler]
  /\ UNCHANGED <<restart_of, task_queue, storeVars, workerVars>>

\* api/main.py:931-955  start_job up to its status check
start_job_select(a, j) ==
  /\ api[a].pc = "idle"
  /\ j \in JobIds
  /\ ingestion_jobs[j].status = "pending"
  /\ api' = [api EXCEPT ![a] = [pc |-> "update", op |-> "start", job_id |-> j]]
  /\ UNCHANGED engineVars

\* api/main.py:983-1003  UPDATE ... SET status = 'queued' WHERE id, then
\* task_queue.enqueue
start_job_update(a) ==
  /\ api[a].pc = "update"
  /\ api[a].op = "start"
  /\ ingestion_jobs' = [ingestion_jobs EXCEPT ![api[a].job_id].status = "queued"]
  /\ task_queue' = Append(task_queue, Call(api[a].job_id))
  /\ api' = [api EXCEPT ![a] = IdleHandler]
  /\ UNCHANGED <<restart_of, storeVars, workerVars>>

\* a step of a worker or of an endpoint that is one step
RaceStep(A) ==
  /\ A
  /\ UNCHANGED <<api, limiterVars, cacheVars, chunkerVars, schedulerVars, controlVars>>

\* a step of a request in flight
HandlerStep(A) ==
  /\ A
  /\ UNCHANGED <<limiterVars, cacheVars, chunkerVars, schedulerVars, controlVars>>

RaceNext ==
  \/ \E p \in Projects, s \in RaceSources : RaceStep(create_ingestion_job(p, s))
  \/ \E p \in Projects, s \in RaceSources : RaceStep(trigger_sync_job(p, s))
  \/ \E a \in Handlers, j \in JobIds : HandlerStep(start_job_select(a, j))
  \/ \E a \in Handlers : HandlerStep(start_job_update(a))
  \/ \E w \in RaceWorkers : RaceStep(StartTask(w))
  \/ \E w \in RaceWorkers : RaceStep(fetch_documents(w, RaceFeeds))
  \/ \E w \in RaceWorkers : RaceStep(InitServices(w))
  \/ \E w \in RaceWorkers : RaceStep(BeginDocument(w))
  \/ \E w \in RaceWorkers : RaceStep(FinishDocument(w))
  \/ \E w \in RaceWorkers : RaceStep(CompleteTask(w))
  \/ \E w \in RaceWorkers : RaceStep(FailTask(w))

RaceSpec == RaceInit /\ [][RaceNext]_vars

\* one worker and one cancel request in flight
CancelInit ==
  /\ LimiterUnused
  /\ CacheUnused
  /\ ChunkerUnused
  /\ SchedulerUnused
  /\ ControlUnused
  /\ ingestion_jobs = <<>>
  /\ restart_of = <<>>
  /\ task_queue = <<>>
  /\ documents_tracking = [h \in Hashes |-> "absent"]
  /\ sink = {}
  /\ schema \in {1, 2}
  /\ data_sources = NewSources
  /\ worker = [w \in Workers |-> IdleWorker]
  /\ run = [w \in Workers |-> NoRun]
  /\ outcome = [h \in Hashes |-> "none"]
  /\ api = [a \in {"a1"} |-> IdleHandler]

CancelNext ==
  \/ \E p \in Projects, s \in RaceSources : RaceStep(create_ingestion_job(p, s))
  \/ \E j \in JobIds : RaceStep(restart_job(j))
  \/ \E j \in JobIds : HandlerStep(cancel_job_select("a1", j))
  \/ HandlerStep(cancel_job_update("a1"))
  \/ \E w \in Workers : RaceStep(StartTask(w))
  \/ \E w \in Workers : RaceStep(fetch_documents(w, RaceFeeds))
  \/ \E w \in Workers : RaceStep(InitServices(w))
  \/ \E w \in Workers : RaceStep(BeginDocument(w))
  \/ \E w \in Workers : RaceStep(FinishDocument(w))
  \/ \E w \in Workers : RaceStep(CompleteTask(w))
  \/ \E w \in Workers : RaceStep(FailTask(w))

CancelSpec == CancelInit /\ [][CancelNext]_vars

\* ================================================================ claims
Range(f) == {f[x] : x \in DOMAIN f}
JobOf(w) == worker[w].job_id
\* the step of w is the completion write / the failure write
Completes(w) == worker[w].pc = "loop" /\ worker'[w].pc = "idle"
Fails(w) == worker[w].pc = "failing" /\ worker'[w].pc = "idle"
\* the step of w starts its next document
StartsDocument(w) == worker[w].pc = "loop" /\ worker'[w].idx = worker[w].idx + 1

\* C1: between documents and after the run, processed = successful + failed
\* and processed <= total, for the worker's counters and for the stored row.
C1_CounterInvariant ==
  /\ \A j \in JobIds :
       /\ ingestion_jobs[j].processed_documents =
            ingestion_jobs[j].successful_documents + ingestion_jobs[j].failed_documents
       /\ ingestion_jobs[j].processed_documents <= ingestion_jobs[j].total_documents
  /\ \A w \in Workers :
       worker[w].pc = "loop" =>
         /\ worker[w].processed = worker[w].successful + worker[w].failed
         /\ worker[w].processed <= worker[w].total_documents

\* C2: a row whose status is completed, failed or cancelled keeps that
\* status in every later step, of the API and of the worker.
C2_TerminalIsFinal ==
  [][\A j \in JobIds :
       ingestion_jobs[j].status \in Terminal =>
         ingestion_jobs'[j].status = ingestion_jobs[j].status]_vars

\* C3: with cancelled or paused stored for its job, the worker does not
\* start another document.
C3_CancelObserved ==
  [][\A w \in Workers :
       (/\ worker[w].pc = "loop"
        /\ ingestion_jobs[JobOf(w)].status \in {"cancelled", "paused"})
       => ~StartsDocument(w)]_vars

C5_SkipCountsAsSuccess ==
  [][\A w \in Workers :
       (Completes(w) /\ run[w].allDone) =>
         /\ ingestion_jobs'[JobOf(w)].successful_documents = Len(worker[w].documents)
         /\ ingestion_jobs'[JobOf(w)].failed_documents = 0]_vars

\* C6: when a run comes to a document, the document is kept away from
\* chunking and the sink if its content was last counted as a success, and
\* goes on to chunking if its content was last counted as a failure.
C6_RetryOnlyFailed ==
  [][\A w \in Workers :
       StartsDocument(w) =>
         LET doc == worker[w].documents[worker[w].idx + 1]
             h == compute_content_hash(Content(doc))
         IN CanConcat(doc) =>
              /\ outcome[h] = "ok" => (worker'[w].pc = "loop" /\ sink' = sink)
              /\ outcome[h] = "failed" => worker'[w].pc = "doc"]_vars

\* C7: a restart appends a queued row with the project, source and job type
\* of a failed or cancelled original and changes no existing row.
C7_RestartCreatesNewJob ==
  [][\A n \in (Len(ingestion_jobs) + 1)..Len(ingestion_jobs') :
       restart_of'[n] # 0 =>
         LET o == restart_of'[n] IN
           /\ o \in JobIds
           /\ ingestion_jobs[o].status \in {"failed", "cancelled"}
           /\ ingestion_jobs'[n].status = "queued"
           /\ ingestion_jobs'[n].project_id = ingestion_jobs[o].project_id
           /\ ingestion_jobs'[n].source_id = ingestion_jobs[o].source_id
           /\ ingestion_jobs'[n].job_type = ingestion_jobs[o].job_type
           /\ \A j \in JobIds : ingestion_jobs'[j] = ingestion_jobs[j]]_vars

\* C7 witness: a restarted job whose original has run and kept its progress
C7_Witness ==
  \E n \in JobIds :
    /\ restart_of[n] # 0
    /\ ingestion_jobs[restart_of[n]].status \in {"failed", "cancelled"}
    /\ ingestion_jobs[restart_of[n]].started_at
    /\ ingestion_jobs[n].source_id = 2
    /\ ingestion_jobs[n].job_type = "scheduled"

\* C8: a step in which the per-document handler counts a failure adds one
\* message, returns to the loop and does not send the task to the outer
\* (job-failing) handler.
C8_DocumentErrorContained ==
  [][\A w \in Workers :
       (/\ worker[w].pc \in {"loop", "doc"}
        /\ worker'[w].failed = worker[w].failed + 1)
       => /\ Len(worker'[w].errors) = Len(worker[w].errors) + 1
          /\ worker'[w].pc = "loop"]_vars

C10_FailureKeepsCounters ==
  [][\A j \in JobIds :
       (ingestion_jobs[j].status = "running" /\ ingestion_jobs'[j].status = "failed")
       => ingestion_jobs'[j] =
            [ingestion_jobs[j] EXCEPT !.status = "failed",
                                      !.completed_at = ingestion_jobs'[j].completed_at,
                                      !.error_log = ingestion_jobs'[j].error_log]]_vars

\* C10 witness: a failed row that keeps a document total and a start time
C10_Witness ==
  \E j \in JobIds :
    /\ ingestion_jobs[j].status = "failed"
    /\ ingestion_jobs[j].total_documents > 0
    /\ ingestion_jobs[j].started_at

\* C11: a row whose status is completed has every fetched document counted:
\* its stored processed_documents equals its stored total_documents.
C11_CompletedCountsAll ==
  \A j \in JobIds :
    ingestion_jobs[j].status = "completed" =>
      ingestion_jobs[j].processed_documents = ingestion_jobs[j].total_documents

\* ------------------------------------------------- rate limiter claims
\* the clock when the last call was made (the call slept last_call.wait)
CalledAt == now - last_call.wait
\* recorded requests less than window seconds old when the call was made
Recent(window) == {i \in 1..Len(requests) : CalledAt - requests[i] < window}
\* a recorded request exactly window seconds old: it is leaving the window
Leaving(window) == \E i \in 1..Len(requests) : CalledAt - requests[i] = window
SetMax(S) == CHOOSE x \in S : \A y \in S : y <= x
SetMin(S) == CHOOSE x \in S : \A y \in S : x <= y
\* what is left of the window of the oldest request in it
Remaining(window) ==
  SetMin({requests[i] : i \in Recent(window)}) + window - CalledAt
\* the cap of a window is reached by the requests recorded inside it
CapReached(window, cap) ==
  cap >= 1 /\ Cardinality(Recent(window)) >= cap /\ ~Leaving(window)

C13_WindowsIndependent ==
  (last_call.op = "wait_if_needed" /\ limiter.config.requests_per_minute # 0)
  => /\ CapReached(HourWindow, limiter.config.requests_per_hour)
          => /\ last_call.wait > 0
             /\ last_call.wait >= Remaining(HourWindow)
     /\ CapReached(DayWindow, limiter.config.requests_per_day)
          => /\ last_call.wait > 0
             /\ last_call.wait >= Remaining(DayWindow)

\* C14: record_success leaves consecutive_429s = 0 and
\* current_backoff_delay = 0, whatever 429 responses were recorded before.
C14_SuccessResetsBackoff ==
  last_call.op = "record_success"
  => /\ limiter.consecutive_429s = 0
     /\ limiter.current_backoff_delay = 0

\* C14 witness: the success follows two 429 responses in a row
C14_Witness ==
  /\ last_call.op = "record_success"
  /\ last_call.was_429s = 2
  /\ last_call.was_backoff > 0
  /\ limiter.consecutive_429s = 0

\* C15: wait_if_needed, record_request, get_stats and a passing second
\* leave consecutive_429s and current_backoff_delay as they were.
C15_OnlySuccessResets ==
  last_call.op \in {"wait_if_needed", "record_request", "get_stats", "tick"}
  => /\ limiter.consecutive_429s = last_call.was_429s
     /\ limiter.current_backoff_delay = last_call.was_backoff

\* C15 witness: wait_if_needed slept the whole backoff and it is still set
C15_Witness ==
  /\ last_call.op = "wait_if_needed"
  /\ last_call.was_backoff > 0
  /\ last_call.wait = last_call.was_backoff
  /\ limiter.current_backoff_delay = last_call.was_backoff
  /\ limiter.consecutive_429s > 0

\* C16: record_429_response adds one to consecutive_429s and sets
\* current_backoff_delay to retry_after when one is supplied (0 included),
\* to backoff_factor ^ consecutive_429s when none is.
C16_RetryAfterWins ==
  last_call.op = "record_429_response"
  => /\ limiter.consecutive_429s = last_call.was_429s + 1
     /\ limiter.current_backoff_delay =
          IF last_call.arg # <<>> THEN last_call.arg[1]
          ELSE Pow(limiter.config.backoff_factor, limiter.consecutive_429s)

\* the constraints of wait_if_needed, each evaluated by itself at the clock
\* of the call
MinDelayWait ==
  IF limiter.last_request_time # <<>> /\ limiter.config.min_delay > 0
  THEN limiter.config.min_delay - (CalledAt - limiter.last_request_time[1])
  ELSE 0
WindowWait(window, cap) ==
  IF cap # 0
  THEN check_time_window(limiter.request_history, CalledAt, window, cap).wait
  ELSE 0
ConstraintWaits ==
  <<MinDelayWait,
    WindowWait(MinuteWindow, limiter.config.requests_per_minute),
    WindowWait(HourWindow, limiter.config.requests_per_hour),
    WindowWait(DayWindow, limiter.config.requests_per_day),
    limiter.current_backoff_delay>>

\* C17: wait_if_needed returns the largest of the constraint waits (the
\* rest of the minimum delay, each configured window's wait, the backoff
\* delay), and 0 when none is positive.
C17_MaxOfConstraints ==
  last_call.op = "wait_if_needed"
  => last_call.wait = SetMax({0} \cup {ConstraintWaits[k] : k \in 1..5})

\* C17 witness: the backoff and a window both ask for a wait, of different
\* lengths
C17_Witness ==
  /\ last_call.op = "wait_if_needed"
  /\ limiter.current_backoff_delay > 0
  /\ WindowWait(MinuteWindow, limiter.config.requests_per_minute) > 0
  /\ WindowWait(MinuteWindow, limiter.config.requests_per_minute)
       # limiter.current_backoff_delay

\* C18: a connector request that ends with HTTP 200 leaves the connector's
\* limiter with consecutive_429s = 0 and current_backoff_delay = 0.
C18_ConnectorSuccessClears ==
  (last_call.op \in {"fetch_xml_content", "api_request"} /\ last_call.status = 200)
  => /\ limiter.consecutive_429s = 0
     /\ limiter.current_backoff_delay = 0

\* ------------------------------------------------- content cache claims

\* C19: a failure of the cache store during get_cached_content or
\* save_to_cache, a dead connection included, does not leave
\* fetch_documents as an exception: no task goes to the outer handler with
\* a cache error and no job is set to failed with one.
C19_CacheFailureIsMiss ==
  /\ \A w \in Workers : worker[w].exc # "cache_error"
  /\ \A j \in JobIds : ingestion_jobs[j].error_log # <<"cache_error">>

\* C20: after a save that returned True, and until the next one, the entry
\* holds the saved content, its SHA-256 and access_count = 1 + the number
\* of gets answered since; a get the store answers returns the entry as it
\* then is; while nothing has been saved under a key there is no entry.
C20_PutGetGet ==
  /\ \A key \in CacheKeys :
       IF cache_call.saved[key] = <<>>
       THEN documents_content_cache[key] = <<>>
       ELSE /\ Len(documents_content_cache[key]) = 1
            /\ documents_content_cache[key][1].content = cache_call.saved[key][1]
            /\ documents_content_cache[key][1].content_hash =
                 content_sha256(cache_call.saved[key][1])
            /\ documents_content_cache[key][1].access_count =
                 1 + cache_call.hits[key]
  /\ (cache_call.op = "get_cached_content" /\ cache_call.fault = "none")
       => cache_call.returned = documents_content_cache[cache_call.key]

\* C20 witness: the second get after a save, returning what was saved
C20_Witness ==
  /\ cache_call.op = "get_cached_content"
  /\ cache_call.fault = "none"
  /\ cache_call.hits[cache_call.key] = 2
  /\ cache_call.returned # <<>>
  /\ cache_call.returned[1].content = cache_call.saved[cache_call.key][1]
  /\ cache_call.returned[1].access_count = 3

\* C21: the cache never holds two entries under one (source_id,
\* external_id); right after a save that returned True the entry under its
\* key is the saved content with its SHA-256, its size and the metadata of
\* that save, with access_count 1, whatever entry was there before.
C21_SaveIsUpsert ==
  /\ \A key \in CacheKeys : Len(documents_content_cache[key]) <= 1
  /\ (cache_call.op = "save_to_cache" /\ cache_call.fault = "none")
       => documents_content_cache[cache_call.key] =
            <<[content |-> cache_call.content,
               content_hash |-> content_sha256(cache_call.content),
               content_size |-> content_size(cache_call.content),
               source_metadata |-> metadata_json(cache_call.source_metadata),
               access_count |-> 1]>>

\* C21 witness: a save over an entry that had been read twice and held
\* another content
C21_Witness ==
  /\ cache_call.op = "save_to_cache"
  /\ cache_call.fault = "none"
  /\ cache_call.was # <<>>
  /\ cache_call.was[1].access_count = 3
  /\ cache_call.was[1].content # cache_call.content
  /\ documents_content_cache[cache_call.key][1].access_count = 1

\* ------------------------------------------------- adaptive chunker claims
Returned == chunking.pc = "returned"

\* C22: in the list chunk_document returns, whatever the strategy, every
\* chunk's total_chunks is the length of the list, its chunk_index is its
\* position counted from 0, and no two chunks have the same id.
C22_ChunkNumbering ==
  Returned =>
    /\ \A i \in 1..Len(chunking.chunks) :
         /\ chunking.chunks[i].total_chunks = Len(chunking.chunks)
         /\ chunking.chunks[i].chunk_index = i - 1
    /\ \A i, j \in 1..Len(chunking.chunks) :
         chunking.chunks[i].id = chunking.chunks[j].id => i = j

\* C22 witness: a multi-level call returns chunks of two sections, one of
\* them cut further by recursive chunking
C22_Witness ==
  /\ Returned
  /\ chunking.strategy = "multi_level"
  /\ Len(split_sections(chunking.document.content)) >= 2
  /\ \E k \in 1..Len(split_sections(chunking.document.content)) :
       Len(split_sections(chunking.document.content)[k]) >
         2 * chunking.used_chunk_size
  /\ Len(chunking.chunks) >= 2

\* C23: no chunk returned by multi-level chunking is longer than twice the
\* chunk size it was called with.
C23_MultiLevelCapsChunks ==
  (Returned /\ chunking.strategy = "multi_level") =>
    \A i \in 1..Len(chunking.chunks) :
      Len(chunking.chunks[i].content) <= 2 * chunking.used_chunk_size

\* _standard_chunking is run with 0 <= overlap < chunk_size
StandardCall ==
  /\ chunking.strategy = "standard"
  /\ 0 <= chunking.used_overlap
  /\ chunking.used_overlap < chunking.used_chunk_size

\* the slice of at most chunk_size characters that starts i - 1 steps of
\* chunk_size - overlap into the content
Window(i) ==
  LET start == (i - 1) * (chunking.used_chunk_size - chunking.used_overlap)
  IN SubSeq(chunking.document.content, start + 1,
            Min2(start + chunking.used_chunk_size,
                 Len(chunking.document.content)))

\* C24: standard chunking run with 0 <= overlap < chunk_size returns, and
\* its i-th chunk is the slice of at most chunk_size characters that starts
\* (i - 1) * (chunk_size - overlap) characters into the content.
C24_StandardChunkingTerminates ==
  /\ [](StandardCall =>
          \A i \in 1..Len(chunking.chunks) :
            chunking.chunks[i].content = Window(i))
  /\ (StandardCall ~> Returned)

\* C24 witness: a call has returned four overlapping windows
C24_Witness ==
  /\ Returned
  /\ StandardCall
  /\ chunking.used_overlap >= 1
  /\ Len(chunking.chunks) >= 4

\* ------------------------------------------------- incremental sync claims
\* C25: a connector that declares supports_incremental_sync = false never
\* returns documents from a fetch_documents call that was handed a since
\* cursor.
C25_NonIncrementalRejectsSince ==
  \A w \in Workers :
    (/\ worker[w].pc = "init"
     /\ worker[w].last_sync_at # "None")
    => supports_incremental_sync(data_sources[worker[w].source_id].source_type)

\* ------------------------------------------------- schedule claims
\* the formats of a sync_frequency: manual, hourly, daily, weekly,
\* interval:<N><m|h|d> and cron:<5 fields>
Supported(f) ==
  \/ f \in {<<"manual">>, <<"hourly">>, <<"daily">>, <<"weekly">>}
  \/ /\ startswith(f, <<"interval", ":">>)
     /\ Len(f) >= 4
     /\ f[Len(f)] \in {"m", "h", "d"}
     /\ \A i \in 3..(Len(f) - 1) : f[i] \in Digits
  \/ /\ startswith(f, <<"cron", ":">>)
     /\ Len(split_blank(SubSeq(f, 3, Len(f)), <<>>)) = 5
     /\ \A i \in 3..Len(f) : f[i] # ":"

\* C26: once a schedule request for a string that is none of the formats
\* has been handled, or the string has been loaded at start, parsing did
\* not return a config for it and did not return what it returns for
\* manual: it raised.
C26_UnknownFormatRejected ==
  (scheduling.pc # "request" /\ ~Supported(scheduling.arg))
    => scheduling.config.type = "ValueError"

\* ------------------------------------------------- job control claims
Enqueued(queue, j) == \E i \in 1..Len(queue) : queue[i].job_id = j

\* C27: a job row that the scheduler trigger adds (job type scheduled, not
\* a restart of another row) is added in status queued and with its call
\* on the work queue, so that a worker can take it to running.
C27_TriggeredJobIsEnqueued ==
  [][LET new == Len(ingestion_jobs') IN
       (/\ new = Len(ingestion_jobs) + 1
        /\ ingestion_jobs'[new].job_type = "scheduled"
        /\ restart_of'[new] = 0)
       => /\ ingestion_jobs'[new].status = "queued"
          /\ Enqueued(task_queue', new)]_vars

\* C28: a step that takes a job from paused to queued leaves a call for
\* the job on the work queue, so that a worker can take it to running
\* again.
C28_ResumedJobIsEnqueued ==
  [][\A j \in JobIds :
       (ingestion_jobs[j].status = "paused" /\ ingestion_jobs'[j].status = "queued")
       => Enqueued(task_queue', j)]_vars

\* the statuses from which each job control operation is accepted
Allowed(op) ==
  CASE op = "cancel" -> {"pending", "queued", "running"}
    [] op = "pause" -> {"running"}
    [] op = "resume" -> {"paused"}
    [] op = "start" -> {"pending"}
    [] op = "restart" -> {"failed", "cancelled"}

\* C29: a job control request is answered 200 exactly when the job's
\* status was one the operation accepts, and a request answered with an
\* error leaves the job table, the restart history and the work queue as
\* they were.
C29_ControlOnlyFromAllowedStatus ==
  /\ [](control # <<>> =>
          (control.response = 200 <=> control.was \in Allowed(control.op)))
  /\ [][(control' # <<>> /\ control'.response # 200)
          => UNCHANGED <<ingestion_jobs, restart_of, task_queue>>]_vars

\* a cancel of a completed job has been answered with an error
C29_Witness ==
  /\ control # <<>>
  /\ control.op = "cancel"
  /\ control.was = "completed"
  /\ control.response = 400
  /\ ingestion_jobs[control.job_id].status = "completed"

\* C30: a step of the document handler that counts the document as a
\* success, or marks its tracking row completed, has inserted every chunk
\* of the document into the sink.
C30_SuccessIsAllOrNothing ==
  [][\A w \in Workers :
       (/\ worker[w].pc = "doc"
        /\ \/ worker'[w].successful = worker[w].successful + 1
           \/ /\ documents_tracking[worker[w].content_hash] # "completed"
              /\ documents_tracking'[worker[w].content_hash] = "completed")
       => run'[w].embedded = "all"]_vars

\* ------------------------------------------------- request history claims
HasCap(config) ==
  config.requests_per_minute # 0 \/ config.requests_per_hour # 0
    \/ config.requests_per_day # 0

LargestWindow(config) ==
  IF config.requests_per_day # 0 THEN DayWindow
  ELSE IF config.requests_per_hour # 0 THEN HourWindow
  ELSE MinuteWindow

\* C31 as stated: when wait_if_needed has returned, no entry of the request
\* history is older than the clock at the return minus the largest
\* configured window.
C31_HistoryWithinWindowAtReturn ==
  (last_call.op = "wait_if_needed" /\ HasCap(limiter.config))
  => \A i \in 1..Len(limiter.request_history) :
       limiter.request_history[i] >= now - LargestWindow(limiter.config)

\* C31 amended: when wait_if_needed has returned, no entry of the request
\* history is older than the clock the call read before it slept minus the
\* largest configured window.
C31_HistoryWithinWindowAtCheck ==
  (last_call.op = "wait_if_needed" /\ HasCap(limiter.config))
  => \A i \in 1..Len(limiter.request_history) :
       limiter.request_history[i]
         >= (now - last_call.wait) - LargestWindow(limiter.config)

\* two requests were recorded, the call dropped both and did not sleep
C31_Witness ==
  /\ last_call.op = "wait_if_needed"
  /\ HasCap(limiter.config)
  /\ last_call.wait = 0
  /\ Len(requests) = 2
  /\ limiter.request_history = <<>>

\* ------------------------------------------------- concurrency claims
\* C32: no store of a worker adds rows for a document whose chunks the
\* sink already holds.
C32_ChunksWrittenOnce ==
  \A w \in DOMAIN run : ~run[w].duplicated

\* C33: no step takes a job row from completed or failed, as the worker
\* wrote it, to cancelled.
C33_CancelNeverOverwritesFinal ==
  [][\A j \in JobIds :
       ingestion_jobs[j].status \in {"completed", "failed"}
       => ingestion_jobs'[j].status # "cancelled"]_vars

\* C34: no two workers are at work on the same job record at the same
\* time.
C34_OneWorkerPerJob ==
  \A w1, w2 \in DOMAIN worker :
    (w1 # w2 /\ worker[w1].pc # "idle" /\ worker[w2].pc # "idle")
    => worker[w1].job_id # worker[w2].job_id

\* C35: no worker takes up a job whose row says cancelled: it is not set
\* to running, and no fetch and no store is made for it.
C35_CancelledNeverExecuted ==
  [][\A w \in Workers :
       (worker[w].pc = "idle" /\ worker'[w].pc # "idle")
       => ingestion_jobs[worker'[w].job_id].status # "cancelled"]_vars

\* C36: a step in which the per-document handler counts the failure of
\* document k leaves the tracking record of every other document as it
\* was, and does not leave the loop for the outer handler.
C36_FailureTouchesOwnRecordOnly ==
  [][\A w \in Workers :
       (/\ worker[w].pc \in {"loop", "doc"}
        /\ worker'[w].failed = worker[w].failed + 1)
       => LET doc == worker'[w].documents[worker'[w].idx] IN
            /\ \A h \in Hashes :
                 (~CanConcat(doc) \/ h # compute_content_hash(Content(doc)))
                 => documents_tracking'[h] = documents_tracking[h]
            /\ worker'[w].pc # "failing"]_vars

\* ------------------------------------------------- chunking termination
\* C37: in a call as the worker makes it (no overlap argument, the
\* chunker's own overlap and the chunk size are the project's settings),
\* every iteration of the standard loop moves its start forward, so the
\* loop comes to the end of the content.
C37_ChunkingStepAdvances ==
  [][(/\ chunking.overlap = None
      /\ chunking.pc = "standard"
      /\ chunking'.pc = "standard")
     => chunking'.start > chunking.start]_vars

\* C38: every request a rate-limited connector sends is recorded on its
\* limiter: when a connector's request handler returns having sent a
\* request, the limiter's last_request_time and the newest entry of its
\* request_history are the time the request was sent
ConnectorHandlers == {"fetch_xml_content", "api_request", "download_xml_content"}

C38_RequestsAreRecorded ==
  (last_call.op \in ConnectorHandlers /\ last_call.status # 0)
    => /\ limiter.last_request_time = <<now>>
       /\ limiter.request_history # <<>>
       /\ limiter.request_history[Len(limiter.request_history)] = now

\* C39: the content cache is transparent to the outcome of a job: a job
\* whose task holds a cache service does not end failed in the fetch, which
\* the same fetch without a cache service completes
C39_CacheIsTransparent ==
  \A j \in 1..Len(ingestion_jobs) :
    fetch.cache_service => ingestion_jobs[j].status # "failed"

\* without a cache service the fetch of the same sources never fails
FetchWithoutCacheCompletes ==
  \A j \in 1..Len(ingestion_jobs) :
    ~fetch.cache_service => ingestion_jobs[j].status # "failed"

\* C40: no content is lost by chunking: when chunk_document has returned,
\* every character of the document's content that is not white space is in
\* the returned chunks, so the chunks hold at least as many occurrences of
\* each such character as the content does
Occurrences(text, c) == Cardinality({i \in 1..Len(text) : text[i] = c})

RECURSIVE OccurrencesInChunks(_, _)
OccurrencesInChunks(chunks, c) ==
  IF chunks = <<>> THEN 0
  ELSE Occurrences(Head(chunks).content, c)
         + OccurrencesInChunks(Tail(chunks), c)

C40_NoContentLost ==
  chunking.pc = "returned" =>
    \A c \in Chars \ Whitespace :
      OccurrencesInChunks(chunking.chunks, c)
        >= Occurrences(chunking.document.content, c)


====
